---- MODULE Spec2Model ----
(***************************************************************************)
(* Model of the adaptive extraction workflow of portico's backend:         *)
(* OptimizedUniversalScraper.run and the two tiers it drives               *)
(* (backend/optimized_scraper.py).  One behaviour is one run() generator   *)
(* consumed to exhaustion: every action is the code executed when the      *)
(* generator is resumed from one suspension point up to the next one.      *)
(***************************************************************************)
EXTENDS Integers, Sequences, FiniteSets, TLC

VARIABLES
    url,              \* argument of run()
    browser,          \* self._browser is set (TRUE after __aenter__)
    retry_attempts,   \* self.config['retry_attempts']
    proxy_cfg,        \* helper_proxy_enabled / _rotation / _settings of self.config
    pc,               \* suspension point of the generator
    events,           \* the WorkflowOutput records yielded so far
    current_stage,    \* local current_stage of run()
    robust_stage,     \* local current_stage of _run_robust_path()
    attempt,          \* loop variable of _run_fast_path()
    context,          \* local context of _run_robust_path(): "None", "open", "closed", "close_failed"
    context_proxy,    \* context_kwargs['proxy'] of the created context, "None" if absent
    raw_html,         \* page rendered by the browser (sequence of at most one page)
    gets,             \* number of requests.get calls issued
    sleeps,           \* number of asyncio.sleep(retry_delay) calls
    proxy_lookups,    \* number of _get_helper_proxy_settings calls
    contexts_created, \* number of successful browser.new_context calls
    close_calls,      \* number of context.close calls
    gotos,            \* number of page.goto calls
    robust_entries,   \* number of times _run_robust_path was entered
    fast_outcome,     \* "pending", "returned" or "raised": how _run_fast_path ended
    robust_exc,       \* exception caught by _run_robust_path (sequence of at most one)
    navigation_outcome, \* how _navigate_and_consent ended, "pending" before it
    raised,           \* an exception left run() towards the consumer
    response,         \* what the last requests.get of _run_fast_path gave (sequence of at most one)
    runs,             \* calls of run() on this scraper that have ended
    setups,           \* per context set-up of this scraper: the proxy put in context_kwargs
    soup,             \* document given to _extract_universal_metadata
    metadata,         \* the Metadata object the strategies fill in
    meta_pc,          \* next step of _extract_universal_metadata
    ld_index,         \* index of the next JSON-LD script tag of the loop
    now,              \* the clock, in minutes
    working_proxies,  \* FreeProxyManager.working_proxies, a list of ProxyInfo objects
    working_list,     \* identity of the list object working_proxies is bound to
    failed_proxies,   \* FreeProxyManager.failed_proxies, a set of ip:port keys
    last_fetch,       \* FreeProxyManager.last_fetch: << >> is None, else << time >>
    refresh,          \* per task: where its refresh_proxies call stands
    selected,         \* what get_random_proxy last returned to a caller
    direct,           \* the proxy a caller's own validate_proxy call is probing
    calls_made,       \* refresh_proxies calls begun
    direct_validations,  \* validate_proxy calls begun by callers
    validation_failures, \* per address: validations that failed, counted up to 3
    prev_call,        \* the refresh_proxies call that ended last
    pair,             \* two calls made one after the other, once the second has ended
    merged_size,      \* length of the merged list of the last refresh before the cut
    fresh_selection,  \* no validation has ended since get_random_proxy returned
    max_proxies,      \* FreeProxyManager.max_proxies, the cap of the working set
    max_concurrent,   \* argument of validate_proxies, the size of its semaphore
    probe_log,        \* results of the validate_proxy requests made on the record under test
    sources,          \* what each source does when fetch_proxies_from_sources asks it
    fetch_result,     \* how fetch_proxies_from_sources ended (sequence of at most one)
    nav_pc,           \* next step of _navigate_and_consent
    selector_index,   \* position in cookie_consent_selectors of the selector the loop tries next
    consent_given,    \* the local consent_given
    consent_log,      \* the selectors tried so far, each with what the page did
    settle_waits,     \* wait_for_timeout(3000) calls made after the consent loop
    nav_error,        \* the exception _navigate_and_consent raised, "None" if none
    routes,           \* the routes block_requests has handled: the request and the calls made on the route
    workflow,         \* the WorkflowOutput values scraper.run yields for the request, in order
    sse_pc,           \* where generate_sse_events is suspended
    sse_index,        \* position in workflow of the update the loop of generate_sse_events holds
    sse_chunks,       \* what generate_sse_events has yielded
    current_user,     \* id of the user of the request being streamed, "None" if there is none
    save_pc,          \* where sse_and_save_generator is suspended
    delivered,        \* what sse_and_save_generator has yielded to the response
    final_data,       \* the local final_data: << >> is None
    scraped_articles, \* rows of the table scraped_articles
    http_log,         \* the requests scrape_stream has answered: user, status code
    rate_limit_log,   \* rows of the table rate_limit_log: user_id, timestamp
    utc_now,          \* datetime.now(timezone.utc), in seconds
    max_requests,     \* RateLimiter.max_requests
    window_seconds,   \* RateLimiter.window_seconds
    verdicts          \* the is_allowed calls made so far: user, time, result

vars == << url, browser, retry_attempts, proxy_cfg, pc, events, current_stage,
           robust_stage, attempt, context, context_proxy, raw_html, gets, sleeps,
           proxy_lookups, contexts_created, close_calls, gotos, robust_entries,
           fast_outcome, robust_exc, navigation_outcome, raised, response, runs, setups,
           soup, metadata, meta_pc, ld_index,
           now, working_proxies, working_list, failed_proxies, last_fetch, refresh,
           selected, direct, calls_made, direct_validations, validation_failures,
           prev_call, pair, merged_size, fresh_selection,
           max_proxies, max_concurrent, probe_log, sources, fetch_result,
           nav_pc, selector_index, consent_given, consent_log, settle_waits, nav_error,
           routes,
           workflow, sse_pc, sse_index, sse_chunks,
           current_user, save_pc, delivered, final_data, scraped_articles, http_log,
           rate_limit_log, utc_now, max_requests, window_seconds, verdicts >>

pool_config == << max_proxies, max_concurrent >>

pool_units == << probe_log, sources, fetch_result >>

pool_vars == << now, working_proxies, working_list, failed_proxies, last_fetch, refresh,
                selected, direct, calls_made, direct_validations, validation_failures,
                prev_call, pair, merged_size, fresh_selection, pool_config, pool_units >>

meta_vars == << soup, metadata, meta_pc, ld_index >>

consent_vars == << nav_pc, selector_index, consent_given, consent_log, settle_waits, nav_error >>

route_vars == << routes >>

sse_vars == << workflow, sse_pc, sse_index, sse_chunks >>

endpoint_vars == << current_user, save_pc, delivered, final_data, scraped_articles, http_log >>

limiter_vars == << rate_limit_log, utc_now, max_requests, window_seconds, verdicts >>

\* the state of the parts at the edge of the workflow: the page, the routes,
\* the HTTP endpoint
edge_vars == << consent_vars, route_vars, sse_vars, endpoint_vars, limiter_vars >>

\* what a step of the navigation leaves alone at the edge
beside_consent == << route_vars, sse_vars, endpoint_vars, limiter_vars >>

\* what a call of block_requests leaves alone at the edge
beside_routes == << consent_vars, sse_vars, endpoint_vars, limiter_vars >>

\* what a step of generate_sse_events leaves alone at the edge
beside_sse == << consent_vars, route_vars, endpoint_vars, limiter_vars >>

\* what a step of scrape_stream leaves alone at the edge
beside_endpoint == << consent_vars, route_vars, sse_vars, limiter_vars >>

\* what a call of is_allowed leaves alone at the edge
beside_limiter == << consent_vars, route_vars, sse_vars, endpoint_vars >>

(***************************************************************************)
(* Bounds of the model.                                                    *)
(***************************************************************************)
MaxRetryAttempts == 2

(***************************************************************************)
(* Program constants.                                                      *)
(***************************************************************************)
MINIMUM_CONTENT_LENGTH == 250

DECOY_PAGE_KEYWORDS ==
    { "page not found", "page non trouvee", "enable javascript", "checking your browser" }

total_stages == 6

ScraperErrors ==
    { "ScraperError", "NavigationError", "ContentExtractionError",
      "DecoyPageError", "ValidationError" }

\* class DecoyPageError(ContentExtractionError), class X(ScraperError)
IsInstance(kind, cls) ==
    \/ kind = cls
    \/ cls = "Exception"
    \/ cls = "ScraperError" /\ kind \in ScraperErrors
    \/ cls = "ContentExtractionError" /\ kind = "DecoyPageError"

Exc(kind, msg) == [kind |-> kind, msg |-> msg]

(***************************************************************************)
(* Text.  A string is a sequence of runs [tok, n]: n repetitions of the    *)
(* token tok.  A token is one character ("a", "A", "I_DOT" for U+0130,     *)
(* "i", "COMBINING_DOT" for U+0307, " ") or one occurrence of a phrase     *)
(* ("aaaa " and "Aaaa " are a four-letter word followed by a space).       *)
(***************************************************************************)
Width(tok) ==
    CASE tok \in { "a", "A", "i", "I_DOT", "COMBINING_DOT", " " } -> 1
      [] tok \in { "page not found", "PAGE NOT FOUND" } -> 14
      [] tok \in { "page non trouvee", "Page Non Trouvee" } -> 16
      [] tok \in { "enable javascript", "Enable JavaScript" } -> 17
      [] tok \in { "checking your browser", "Checking Your Browser" } -> 21
      [] tok \in { "aaaa ", "Aaaa " } -> 5

Run(tok, n) == [tok |-> tok, n |-> n]

RECURSIVE StrLen(_)
StrLen(s) ==
    IF s = << >> THEN 0 ELSE Head(s).n * Width(Head(s).tok) + StrLen(Tail(s))

\* str.lower() of one token; U+0130 lowers to the two characters U+0069 U+0307
LowerTok(tok) ==
    CASE tok = "A" -> "a"
      [] tok = "PAGE NOT FOUND" -> "page not found"
      [] tok = "Page Non Trouvee" -> "page non trouvee"
      [] tok = "Enable JavaScript" -> "enable javascript"
      [] tok = "Checking Your Browser" -> "checking your browser"
      [] tok = "Aaaa " -> "aaaa "
      [] OTHER -> tok

RECURSIVE LowerDotted(_)
LowerDotted(n) ==
    IF n = 0 THEN << >>
    ELSE << Run("i", 1), Run("COMBINING_DOT", 1) >> \o LowerDotted(n - 1)

RECURSIVE StrLower(_)
StrLower(s) ==
    IF s = << >> THEN << >>
    ELSE (IF Head(s).tok = "I_DOT" THEN LowerDotted(Head(s).n)
          ELSE << Run(LowerTok(Head(s).tok), Head(s).n) >>) \o StrLower(Tail(s))

\* the whitespace-separated words of one occurrence of a token
WordsIn(tok) ==
    CASE tok = " " -> 0
      [] tok \in { "enable javascript", "Enable JavaScript" } -> 2
      [] tok \in { "page not found", "PAGE NOT FOUND", "page non trouvee", "Page Non Trouvee",
                   "checking your browser", "Checking Your Browser" } -> 3
      [] OTHER -> 1

StartsWithSpace(tok) == tok = " "

EndsWithSpace(tok) == tok \in { " ", "aaaa ", "Aaaa " }

\* the words of n adjacent occurrences of a token
RunWords(r) ==
    IF WordsIn(r.tok) = 0 THEN 0
    ELSE IF StartsWithSpace(r.tok) \/ EndsWithSpace(r.tok) THEN r.n * WordsIn(r.tok)
    ELSE r.n * (WordsIn(r.tok) - 1) + 1

RECURSIVE SumRunWords(_)
SumRunWords(s) ==
    IF s = << >> THEN 0 ELSE RunWords(Head(s)) + SumRunWords(Tail(s))

\* len(s.split()): words that meet at the border of two runs are one word
StrSplitLen(s) ==
    SumRunWords(s)
    - Cardinality({ i \in 1..(Len(s) - 1) :
                      ~EndsWithSpace(s[i].tok) /\ ~StartsWithSpace(s[i + 1].tok) })

\* keyword in s
StrContains(s, keyword) ==
    \E i \in 1..Len(s) : s[i].tok = keyword /\ s[i].n >= 1

(***************************************************************************)
(* Inputs: URLs, pages and responses the environment can produce.          *)
(***************************************************************************)
Urls == { "https://example.com/a", "example.com/a", "https:///a",
          "//example.com/a", "http://[bad" }

\* urllib.parse.urlparse on the URLs above; "http://[bad" raises ValueError
urlparse(u) ==
    CASE u = "https://example.com/a" -> [raises |-> FALSE, scheme |-> "https", netloc |-> "example.com"]
      [] u = "example.com/a"         -> [raises |-> FALSE, scheme |-> "", netloc |-> ""]
      [] u = "https:///a"            -> [raises |-> FALSE, scheme |-> "https", netloc |-> ""]
      [] u = "//example.com/a"       -> [raises |-> FALSE, scheme |-> "", netloc |-> "example.com"]
      [] u = "http://[bad"           -> [raises |-> TRUE, scheme |-> "", netloc |-> ""]

Markdowns ==
    { << Run("a", 300) >>,
      << Run("a", 250) >>,
      << Run("a", 249) >>,
      << Run("A", 100), Run(" ", 1), Run("a", 200) >>,
      << Run("a", 248), Run("I_DOT", 1) >>,
      << Run("a", 300), Run(" ", 1), Run("enable javascript", 1) >>,
      << Run("a", 300), Run(" ", 1), Run("Enable JavaScript", 1) >>,
      << Run("PAGE NOT FOUND", 1), Run(" ", 1), Run("a", 300) >>,
      << Run("Page Non Trouvee", 1) >>,
      << Run("aaaa ", 399), Run("a", 1) >>,
      << Run("Aaaa ", 49), Run("a", 10) >>,
      << Run("aaaa ", 400), Run("I_DOT", 1) >>,
      << >> }

\* an HTML document: whether an article container (or the readability
\* fallback) is found in it, and the markdown its container converts to
Pages ==
    { [container |-> TRUE, markdown |-> m] : m \in Markdowns }
    \cup { [container |-> FALSE, markdown |-> << >>] }

\* what requests.get(...) followed by raise_for_status() can do
HttpResponses ==
    { [kind |-> "html", page |-> p, msg |-> "200"] : p \in Pages }
    \cup { [kind |-> "html", page |-> [container |-> FALSE, markdown |-> << >>],
            msg |-> "304 Not Modified"] }
    \cup { [kind |-> k, page |-> [container |-> FALSE, markdown |-> << >>], msg |-> m] :
             k \in { "RequestException" }, m \in { "404 Client Error", "Connection refused", "Read timed out" } }
    \cup { [kind |-> "Exception", page |-> [container |-> FALSE, markdown |-> << >>], msg |-> "unexpected"] }

(***************************************************************************)
(* Pure parts of the scraper.                                              *)
(***************************************************************************)
NoException == Exc("None", "None")

\* _create_workflow_output
create_workflow_output(status, stage, stage_no, message, data, error) ==
    [ status |-> status, stage |-> stage, total_stages |-> total_stages,
      current_stage |-> stage_no, message |-> message, data |-> data, error |-> error ]

\* Article(...) as built at the end of _parse_html_content; scraped_with defaults to "N/A"
Article(u, markdown) ==
    [ url |-> u, scraped_with |-> "N/A", markdown |-> markdown,
      word_count |-> 0, reading_time_minutes |-> [ num |-> 0, den |-> 200 ] ]

\* _parse_html_content: ContentExtractionError when neither a container
\* selector nor the readability fallback finds an element
parse_html_content(u, page) ==
    IF ~page.container
    THEN [ raises |-> TRUE, exc |-> Exc("ContentExtractionError", "Could not extract content."),
           article |-> Article(u, << >>) ]
    ELSE [ raises |-> FALSE, exc |-> NoException, article |-> Article(u, page.markdown) ]

\* _validate_article: both tests are made on content_lower = markdown.lower()
validate_article(article) ==
    LET content_lower == StrLower(article.markdown) IN
    IF StrLen(content_lower) < MINIMUM_CONTENT_LENGTH
    THEN Exc("DecoyPageError", "Content too short. Likely a block page.")
    ELSE IF \E keyword \in DECOY_PAGE_KEYWORDS : StrContains(content_lower, keyword)
    THEN Exc("DecoyPageError", "Decoy page keyword found. Content likely blocked.")
    ELSE NoException

\* mutant: the reading time has no floor of one minute
article_metrics_NoFloor(article) ==
    LET words == StrSplitLen(StrLower(article.markdown)) IN
    [ article EXCEPT !.word_count = words,
                     !.reading_time_minutes = [ num |-> words, den |-> 200 ] ]

\* the end of _validate_article: words = content_lower.split(), word_count
\* and reading_time_minutes = max(1.0, len(words) / 200); the float is kept
\* as the exact fraction num / den with den = 200
article_metrics(article) ==
    LET words == StrSplitLen(StrLower(article.markdown)) IN
    [ article EXCEPT !.word_count = words,
                     !.reading_time_minutes =
                         [ num |-> IF words > 200 THEN words ELSE 200, den |-> 200 ] ]

\* mutant: only the host is tested
UrlIsValid_HostOnly(parsed) == parsed.netloc # ""

\* the test of run() on the parsed URL
UrlIsValid(parsed) == parsed.scheme # "" /\ parsed.netloc # ""

\* mutant: scraped_with keeps the default of Article
FastScrapedWith_Default == "N/A"

\* article.scraped_with = ScrapingMethod.REQUESTS.value
FastScrapedWith == "requests"

\* article_data.scraped_with = ScrapingMethod.PLAYWRIGHT.value
RobustScrapedWith == "playwright"

\* one iteration of the loop of _run_fast_path on the response resp:
\* "return" an article, "retry" after a sleep, or "raise" an exception
fast_path_iteration(u, resp, att, retries) ==
    IF resp.kind = "RequestException"
    THEN IF att = retries - 1
         THEN [ outcome |-> "raise", article |-> Article(u, << >>),
                exc |-> Exc("NavigationError", "Requests failed to fetch URL: " \o resp.msg) ]
         ELSE [ outcome |-> "retry", article |-> Article(u, << >>), exc |-> NoException ]
    ELSE IF resp.kind = "Exception"
    THEN [ outcome |-> "raise", article |-> Article(u, << >>), exc |-> Exc("Exception", resp.msg) ]
    ELSE LET parsed == parse_html_content(u, resp.page)
             article == [ parsed.article EXCEPT !.scraped_with = FastScrapedWith ]
             invalid == validate_article(article)
         IN  IF parsed.raises
             THEN [ outcome |-> "raise", article |-> Article(u, << >>), exc |-> parsed.exc ]
             ELSE IF invalid # NoException
             THEN [ outcome |-> "raise", article |-> Article(u, << >>), exc |-> invalid ]
             ELSE [ outcome |-> "return", article |-> article_metrics(article),
                    exc |-> NoException ]

\* the proxy configurations a scraper can be given
ProxyConfigs ==
    { [ helper_proxy_enabled |-> FALSE, rotation |-> "dict", rotation_enabled |-> FALSE,
        proxy_list |-> << >>, current_index |-> 0, server |-> "None" ],
      [ helper_proxy_enabled |-> TRUE, rotation |-> "dict", rotation_enabled |-> FALSE,
        proxy_list |-> << >>, current_index |-> 0, server |-> "http://single:8080" ],
      [ helper_proxy_enabled |-> TRUE, rotation |-> "True", rotation_enabled |-> FALSE,
        proxy_list |-> << >>, current_index |-> 0, server |-> "None" ],
      [ helper_proxy_enabled |-> TRUE, rotation |-> "dict", rotation_enabled |-> TRUE,
        proxy_list |-> << "http://p1:8080", "http://p2:8080" >>, current_index |-> 0,
        server |-> "None" ],
      [ helper_proxy_enabled |-> TRUE, rotation |-> "dict", rotation_enabled |-> TRUE,
        proxy_list |-> << >>, current_index |-> 0, server |-> "None" ] }

\* what get_helper_proxy_manager().get_random_proxy() can do
ManagerOutcomes == { "None", "http://pool:3128", "raises" }

\* _get_helper_proxy: a manager failure is logged and gives None
get_helper_proxy(cfg, manager) ==
    IF cfg.rotation = "False" THEN "None"
    ELSE IF manager = "raises" THEN "None"
    ELSE manager

\* mutant: the explicit list does not advance
get_helper_proxy_settings_NoRotate(cfg, manager) ==
    IF ~cfg.helper_proxy_enabled
    THEN [ proxy |-> "None", cfg |-> cfg ]
    ELSE IF cfg.rotation = "True"
    THEN [ proxy |-> get_helper_proxy(cfg, manager), cfg |-> cfg ]
    ELSE IF cfg.rotation = "dict" /\ cfg.rotation_enabled /\ cfg.proxy_list # << >>
    THEN [ proxy |-> cfg.proxy_list[(cfg.current_index % Len(cfg.proxy_list)) + 1], cfg |-> cfg ]
    ELSE [ proxy |-> cfg.server, cfg |-> cfg ]

\* _get_helper_proxy_settings: the proxy to attach and the configuration
\* after the call (the explicit list advances its current_index)
get_helper_proxy_settings(cfg, manager) ==
    IF ~cfg.helper_proxy_enabled
    THEN [ proxy |-> "None", cfg |-> cfg ]
    ELSE IF cfg.rotation = "True"
    THEN [ proxy |-> get_helper_proxy(cfg, manager), cfg |-> cfg ]
    ELSE IF cfg.rotation = "dict" /\ cfg.rotation_enabled /\ cfg.proxy_list # << >>
    THEN [ proxy |-> cfg.proxy_list[(cfg.current_index % Len(cfg.proxy_list)) + 1],
           cfg |-> [ cfg EXCEPT !.current_index = (cfg.current_index + 1) % Len(cfg.proxy_list) ] ]
    ELSE [ proxy |-> cfg.server, cfg |-> cfg ]

(***************************************************************************)
(* Metadata extraction (_extract_universal_metadata and its strategies).   *)
(***************************************************************************)
MaxLdBlocks == 2     \* bound: JSON-LD script tags in a document

UNKNOWN_AUTHOR == "Unknown"
DATE_NOT_APPLICABLE == "N/A"

\* Metadata(): the dataclass defaults
Metadata ==
    [ author |-> UNKNOWN_AUTHOR, publication_date_utc |-> DATE_NOT_APPLICABLE,
      word_count |-> 0, reading_time_minutes |-> 0,
      author_found_by |-> "None", date_found_by |-> "None" ]

\* dateutil's parse(...).isoformat() on the date strings of the model;
\* a naive input stays naive, "yesterday-ish" is no date and raises
parse_date(content) ==
    CASE content = "2024-05-10T08:00:00Z" -> [ raises |-> FALSE, isoformat |-> "2024-05-10T08:00:00+00:00" ]
      [] content = "2024-01-02"           -> [ raises |-> FALSE, isoformat |-> "2024-01-02T00:00:00" ]
      [] content = "2023-12-31"           -> [ raises |-> FALSE, isoformat |-> "2023-12-31T00:00:00" ]
      [] OTHER                            -> [ raises |-> TRUE, isoformat |-> "" ]

\* values of the 'author' key of a JSON-LD object: type "absent" is a missing
\* key, name "" inside a dict is a missing or empty 'name'
AuthorData(type, name) == [ type |-> type, name |-> name ]

\* Python truth value of data.get('author')
AuthorDataIsTrue(author_data) ==
    CASE author_data.type = "absent"     -> FALSE
      [] author_data.type = "empty_list" -> FALSE
      [] author_data.type = "str"        -> author_data.name # ""
      [] author_data.type = "number"     -> TRUE
      [] OTHER                           -> TRUE

\* _extract_author_name: << >> is None
extract_author_name(author_data) ==
    CASE author_data.type = "dict" ->
           IF author_data.name = "" THEN << >> ELSE << author_data.name >>
      [] author_data.type = "list_of_dict" ->
           IF author_data.name = "" THEN << >> ELSE << author_data.name >>
      [] author_data.type = "list_of_str" -> << author_data.name >>
      [] author_data.type = "str" -> << author_data.name >>
      [] OTHER -> << >>

\* a script tag of type application/ld+json: json tells what json.loads
\* gives ("invalid" raises), author and datePublished are the keys of the
\* object reached by the list and @graph unwrapping
LdBlock(json, author, datePublished) ==
    [ json |-> json, author |-> author, datePublished |-> datePublished ]

LdBlocks ==
    { LdBlock("invalid", AuthorData("absent", ""), ""),
      LdBlock("empty_list", AuthorData("absent", ""), ""),
      LdBlock("object", AuthorData("str", "Alice"), "2024-05-10T08:00:00Z"),
      LdBlock("object", AuthorData("dict", "Alice"), "yesterday-ish"),
      LdBlock("object", AuthorData("str", "Unknown"), ""),
      LdBlock("list", AuthorData("list_of_dict", "Carol"), ""),
      LdBlock("object", AuthorData("absent", ""), "2024-01-02"),
      LdBlock("object", AuthorData("dict", ""), ""),
      LdBlock("graph", AuthorData("list_of_str", "Erin"), "2023-12-31"),
      LdBlock("object", AuthorData("number", ""), "") }

RECURSIVE SeqsUpTo(_, _)
\* the sequences over S of length at most n
SeqsUpTo(S, n) ==
    IF n = 0 THEN { << >> }
    ELSE LET shorter == SeqsUpTo(S, n - 1)
         IN shorter \cup { Append(s, x) : s \in { t \in shorter : Len(t) = n - 1 }, x \in S }

\* stripped content of the first tag matching each of the four author
\* selectors, in the order of the code; "" is no tag or an empty content
MetaAuthorContents ==
    { << "", "", "", "" >>, << "Bob", "", "", "" >>,
      << "", "", "Dave", "Eve" >>, << "Unknown", "Bob", "", "" >> }

\* the same for the six date selectors
MetaDateContents ==
    { << "", "", "", "", "", "" >>,
      << "yesterday-ish", "2024-01-02", "", "", "", "" >>,
      << "", "", "2024-05-10T08:00:00Z", "", "", "2023-12-31" >>,
      << "yesterday-ish", "", "", "", "", "" >> }

\* stripped datetime attributes of the time tags that have one, in document order
TimeTagContents ==
    { << >>, << "yesterday-ish", "2023-12-31" >>, << "", "yesterday-ish" >>,
      << "2024-01-02" >> }

\* the documents of the model
Soups ==
    { [ ld_json |-> ld, meta_author |-> a, meta_date |-> d, time_tags |-> t ] :
        ld \in SeqsUpTo(LdBlocks, MaxLdBlocks), a \in MetaAuthorContents,
        d \in MetaDateContents, t \in TimeTagContents }

EmptySoup ==
    [ ld_json |-> << >>, meta_author |-> << "", "", "", "" >>,
      meta_date |-> << "", "", "", "", "", "" >>, time_tags |-> << >> ]

\* mutant: the body of the JSON-LD loop without its try/except
json_ld_block_NoExcept(block, m) ==
    LET loads_raises == block.json \in { "invalid", "empty_list" }
        name == extract_author_name(block.author)
        with_author ==
            IF /\ ~loads_raises
               /\ m.author = UNKNOWN_AUTHOR
               /\ AuthorDataIsTrue(block.author)
               /\ name # << >> /\ name # << "" >>
            THEN [ m EXCEPT !.author = name[1], !.author_found_by = "json-ld" ]
            ELSE m
        date_tried ==
            /\ ~loads_raises
            /\ with_author.publication_date_utc = DATE_NOT_APPLICABLE
            /\ block.datePublished # ""
        parsed == parse_date(block.datePublished)
    IN  [ metadata |-> IF date_tried /\ ~parsed.raises
                       THEN [ with_author EXCEPT !.publication_date_utc = parsed.isoformat,
                                                 !.date_found_by = "json-ld" ]
                       ELSE with_author,
          raises |-> loads_raises \/ (date_tried /\ parsed.raises) ]

\* one iteration of the loop of _strategy_extract_from_json_ld: json.loads,
\* the unwrapping, the author, then the date; any exception is caught and the
\* loop continues, keeping what the iteration had already assigned
json_ld_block(block, m) ==
    LET loads_raises == block.json \in { "invalid", "empty_list" }
        name == extract_author_name(block.author)
        with_author ==
            IF /\ ~loads_raises
               /\ m.author = UNKNOWN_AUTHOR
               /\ AuthorDataIsTrue(block.author)
               /\ name # << >> /\ name # << "" >>
            THEN [ m EXCEPT !.author = name[1], !.author_found_by = "json-ld" ]
            ELSE m
        date_tried ==
            /\ ~loads_raises
            /\ with_author.publication_date_utc = DATE_NOT_APPLICABLE
            /\ block.datePublished # ""
        parsed == parse_date(block.datePublished)
    IN  [ metadata |-> IF date_tried /\ ~parsed.raises
                       THEN [ with_author EXCEPT !.publication_date_utc = parsed.isoformat,
                                                 !.date_found_by = "json-ld" ]
                       ELSE with_author,
          raises |-> FALSE ]

RECURSIVE FirstContent(_, _)
\* the first non-empty content from position i on, "" if there is none
FirstContent(contents, i) ==
    IF i > Len(contents) THEN ""
    ELSE IF contents[i] # "" THEN contents[i]
    ELSE FirstContent(contents, i + 1)

\* the date loop with a break in place of the continue of the except branch
FirstDate_StopsAtUnparseable(contents, i) ==
    LET first == FirstContent(contents, i)
    IN  IF first # "" /\ ~parse_date(first).raises THEN first ELSE ""

RECURSIVE FirstDate(_, _)
\* the first non-empty content from position i on that parse_date accepts
FirstDate(contents, i) ==
    IF i > Len(contents) THEN ""
    ELSE IF contents[i] # "" /\ ~parse_date(contents[i]).raises THEN contents[i]
    ELSE FirstDate(contents, i + 1)

\* _strategy_extract_from_tags
strategy_extract_from_tags(s, m) ==
    LET content == FirstContent(s.meta_author, 1)
        with_author ==
            IF m.author = UNKNOWN_AUTHOR /\ content # ""
            THEN [ m EXCEPT !.author = content, !.author_found_by = "meta-tag" ]
            ELSE m
        date == FirstDate(s.meta_date, 1)
    IN  IF with_author.publication_date_utc = DATE_NOT_APPLICABLE /\ date # ""
        THEN [ with_author EXCEPT !.publication_date_utc = parse_date(date).isoformat,
                                  !.date_found_by = "meta-tag" ]
        ELSE with_author

\* _strategy_extract_from_attributes
strategy_extract_from_attributes(s, m) ==
    LET date == FirstDate(s.time_tags, 1)
    IN  IF m.publication_date_utc = DATE_NOT_APPLICABLE /\ date # ""
        THEN [ m EXCEPT !.publication_date_utc = parse_date(date).isoformat,
                        !.date_found_by = "time-tag" ]
        ELSE m

(***************************************************************************)
(* FreeProxyManager: the pool of free proxies.                             *)
(***************************************************************************)
MaxRefreshCalls == 2        \* bound: calls of refresh_proxies
MaxDirectValidations == 3   \* bound: validate_proxy calls made by a caller on a proxy it was given
MaxTicks == 1               \* bound: steps of the clock, each half a fetch_interval
SmallCap == 1               \* bound: max_proxies of the manager whose refreshes overlap
DefaultMaxProxies == 50     \* self.max_proxies as __init__ sets it
DefaultMaxConcurrent == 10  \* default of validate_proxies' max_concurrent

fetch_interval == 30        \* minutes

Procs == { 1, 2 }           \* tasks that may call refresh_proxies, possibly overlapping

Addrs == { "a", "b" }       \* ip:port keys

\* what the four sources give, concatenated, before _remove_duplicates
FetchResults == { << >>, << "b", "a", "b" >> }

ProbeOutcomes == { "ok", "non200", "exception" }

Speeds == { 1 }             \* measured latencies; speed 0 is None

\* a ProxyInfo object as a source creates it; id is the object's identity
ProxyInfo(id, addr) ==
    [ id |-> id, addr |-> addr, speed |-> 0, is_working |-> FALSE,
      fail_count |-> 0, success_count |-> 0 ]

NoProxy == [ id |-> 0, addr |-> "None", speed |-> 0, is_working |-> FALSE,
             fail_count |-> 0, success_count |-> 0 ]

RECURSIVE remove_duplicates(_, _)
\* _remove_duplicates: the first record of each ip:port, in order
remove_duplicates(proxies, seen) ==
    IF proxies = << >> THEN << >>
    ELSE IF Head(proxies).addr \in seen
    THEN remove_duplicates(Tail(proxies), seen)
    ELSE << Head(proxies) >> \o remove_duplicates(Tail(proxies), seen \cup { Head(proxies).addr })

\* the sort key (p.success_count, -p.speed if p.speed else 0), compared as tuples
KeyGreater(p, q) ==
    LET speed_key(r) == IF r.speed # 0 THEN 0 - r.speed ELSE 0
    IN  \/ p.success_count > q.success_count
        \/ p.success_count = q.success_count /\ speed_key(p) > speed_key(q)

RECURSIVE InsertByKey(_, _)
\* p placed behind every record whose key is not smaller than its own
InsertByKey(sorted, p) ==
    IF sorted = << >> THEN << p >>
    ELSE IF KeyGreater(p, Head(sorted)) THEN << p >> \o sorted
    ELSE << Head(sorted) >> \o InsertByKey(Tail(sorted), p)

RECURSIVE SortReverse(_, _)
\* list.sort(key=..., reverse=True): descending and stable
SortReverse(proxies, sorted) ==
    IF proxies = << >> THEN sorted
    ELSE SortReverse(Tail(proxies), InsertByKey(sorted, Head(proxies)))

\* all_working[:n]
Slice(proxies, n) == SubSeq(proxies, 1, IF Len(proxies) < n THEN Len(proxies) ELSE n)

\* mutant: the merged list is deduplicated but not sorted
all_working_Unranked(working, working_new) == remove_duplicates(working \o working_new, {})

\* the merged list before it is cut: lines 303-307 of refresh_proxies
all_working(working, working_new) ==
    SortReverse(remove_duplicates(working \o working_new, {}), << >>)

\* mutant: the list of line 303 is stored as it is
merge_working_Appended(working, working_new) == working \o working_new

\* mutant: the merged list is stored without the slice
merge_working_NoCap(working, working_new) == all_working(working, working_new)

\* the new value of self.working_proxies: lines 303-310 of refresh_proxies
merge_working(working, working_new) ==
    Slice(all_working(working, working_new), max_proxies)

\* mutant: force is not looked at
cooldown_active_IgnoresForce(force, last, t) ==
    last # << >> /\ t - last[1] < fetch_interval

\* the guard of the early return of refresh_proxies (line 285)
cooldown_active(force, last, t) ==
    ~force /\ last # << >> /\ t - last[1] < fetch_interval

\* mutant: a success takes the address off the known-bad set
validate_proxy_result_ForgetOnSuccess(proxy, failed, outcome, speed) ==
    CASE outcome = "ok" ->
           [ proxy |-> [ proxy EXCEPT !.speed = speed, !.is_working = TRUE,
                                      !.success_count = @ + 1 ],
             failed_proxies |-> failed \ { proxy.addr }, result |-> TRUE ]
      [] outcome = "exception" ->
           [ proxy |-> [ proxy EXCEPT !.fail_count = @ + 1, !.is_working = FALSE ],
             failed_proxies |-> IF proxy.fail_count + 1 >= 3
                                THEN failed \cup { proxy.addr } ELSE failed,
             result |-> FALSE ]
      [] OTHER -> [ proxy |-> proxy, failed_proxies |-> failed, result |-> FALSE ]

\* validate_proxy after its request: a 200 response, another status (the
\* with blocks end and False is returned, nothing is touched), or an exception
validate_proxy_result(proxy, failed, outcome, speed) ==
    CASE outcome = "ok" ->
           [ proxy |-> [ proxy EXCEPT !.speed = speed, !.is_working = TRUE,
                                      !.success_count = @ + 1 ],
             failed_proxies |-> failed, result |-> TRUE ]
      [] outcome = "exception" ->
           [ proxy |-> [ proxy EXCEPT !.fail_count = @ + 1, !.is_working = FALSE ],
             failed_proxies |-> IF proxy.fail_count + 1 >= 3
                                THEN failed \cup { proxy.addr } ELSE failed,
             result |-> FALSE ]
      [] OTHER -> [ proxy |-> proxy, failed_proxies |-> failed, result |-> FALSE ]

\* a refresh_proxies call that has ended: when it began, whether it asked
\* the sources, how many candidates they gave, which list object it returned
Call(force, begin, fetched, candidates, returned) ==
    [ force |-> force, begin |-> begin, fetched |-> fetched,
      candidates |-> candidates, returned |-> returned ]

NoCall == [ force |-> FALSE, begin |-> 0 - 1, fetched |-> FALSE, candidates |-> 0, returned |-> 0 - 1 ]

\* a task that is not inside refresh_proxies
IdleRefresh ==
    [ phase |-> "idle", force |-> FALSE, begin |-> 0, new_proxies |-> << >>,
      probe |-> << >>, working_new |-> << >>, after |-> NoCall, alone |-> FALSE ]

\* FreeProxyManager.__init__
PoolFresh ==
    /\ now = 0
    /\ working_proxies = << >>
    /\ working_list = 0
    /\ failed_proxies = {}
    /\ last_fetch = << >>
    /\ refresh = [ p \in Procs |-> IdleRefresh ]
    /\ selected = NoProxy
    /\ direct = NoProxy
    /\ calls_made = 0
    /\ direct_validations = 0
    /\ validation_failures = [ a \in Addrs |-> 0 ]
    /\ prev_call = NoCall
    /\ pair = << >>
    /\ merged_size = 0
    /\ fresh_selection = FALSE

\* the cap and the semaphore size nobody has changed
PoolDefaults ==
    /\ max_proxies = DefaultMaxProxies
    /\ max_concurrent = DefaultMaxConcurrent

\* no record is under test and the sources are not being asked
UnitsIdle ==
    /\ probe_log = << >>
    /\ sources = << >>
    /\ fetch_result = << >>

(***************************************************************************)
(* Initial state: a scraper and a URL, run() not yet started.              *)
(***************************************************************************)
\* the extraction is not in progress
MetaIdle ==
    /\ soup = EmptySoup
    /\ metadata = Metadata
    /\ meta_pc = "idle"
    /\ ld_index = 1

\* no navigation is under way
ConsentIdle ==
    /\ nav_pc = "idle"
    /\ selector_index = 0
    /\ consent_given = FALSE
    /\ consent_log = << >>
    /\ settle_waits = 0
    /\ nav_error = "None"

\* no request has been intercepted
RouteIdle == routes = << >>

\* generate_sse_events has not been called
SseIdle ==
    /\ workflow = << >>
    /\ sse_pc = "idle"
    /\ sse_index = 0
    /\ sse_chunks = << >>

\* no request has reached scrape_stream
EndpointIdle ==
    /\ current_user = "None"
    /\ save_pc = "idle"
    /\ delivered = << >>
    /\ final_data = << >>
    /\ scraped_articles = << >>
    /\ http_log = << >>

RATE_LIMIT_PER_MINUTE == 20   \* default of the environment variable
DefaultWindowSeconds == 60    \* default of RateLimiter.window_seconds

\* a RateLimiter with the defaults and an empty log
LimiterIdle ==
    /\ rate_limit_log = << >>
    /\ utc_now = 0
    /\ max_requests = RATE_LIMIT_PER_MINUTE
    /\ window_seconds = DefaultWindowSeconds
    /\ verdicts = << >>

EdgeIdle == ConsentIdle /\ RouteIdle /\ SseIdle /\ EndpointIdle /\ LimiterIdle

\* run() has not been called
RunFresh ==
    /\ pc = "start"
    /\ events = << >>
    /\ current_stage = 0
    /\ robust_stage = 0
    /\ attempt = 0
    /\ context = "None"
    /\ context_proxy = "None"
    /\ raw_html = << >>
    /\ gets = 0
    /\ sleeps = 0
    /\ proxy_lookups = 0
    /\ contexts_created = 0
    /\ close_calls = 0
    /\ gotos = 0
    /\ robust_entries = 0
    /\ fast_outcome = "pending"
    /\ robust_exc = << >>
    /\ navigation_outcome = "pending"
    /\ raised = FALSE
    /\ response = << >>
    /\ runs = 0
    /\ setups = << >>

\* a scraper that stays unused while another component is exercised
RunIdle ==
    /\ url = "https://example.com/a"
    /\ browser = FALSE
    /\ retry_attempts = 0
    /\ proxy_cfg = [ helper_proxy_enabled |-> FALSE, rotation |-> "dict",
                     rotation_enabled |-> FALSE, proxy_list |-> << >>,
                     current_index |-> 0, server |-> "None" ]
    /\ RunFresh

Init ==
    /\ url \in Urls
    /\ browser \in BOOLEAN
    /\ retry_attempts \in 0..MaxRetryAttempts
    /\ proxy_cfg \in ProxyConfigs
    /\ RunFresh
    /\ MetaIdle
    /\ EdgeIdle
    /\ PoolFresh
    /\ PoolDefaults
    /\ UnitsIdle

config_vars == << url, browser, retry_attempts >>
fast_vars == << attempt, gets, sleeps, fast_outcome >>
robust_vars == << robust_stage, context, context_proxy, raw_html, proxy_lookups,
                  contexts_created, close_calls, gotos, robust_entries, robust_exc,
                  navigation_outcome >>

Yield(event) == events' = Append(events, event)

(***************************************************************************)
(* run(): initialization and URL validation.                               *)
(***************************************************************************)
\* mutant: the initialization stage is not announced
RunStart_Silent ==
    /\ pc = "start"
    /\ current_stage' = current_stage + 1
    /\ pc' = "initialization"
    /\ UNCHANGED << pool_vars, meta_vars, edge_vars, config_vars, response, runs, setups, proxy_cfg, events, fast_vars, robust_vars, raised >>

\* first resumption: current_stage += 1 and the initialization event
RunStart ==
    /\ pc = "start"
    /\ current_stage' = current_stage + 1
    /\ Yield(create_workflow_output("progress", "initialization", current_stage + 1,
                                    "Initializing scraper and validating URL...", << >>, "None"))
    /\ pc' = "initialization"
    /\ UNCHANGED << pool_vars, meta_vars, edge_vars, config_vars, response, runs, setups, proxy_cfg, fast_vars, robust_vars, raised >>

\* the URL is rejected: error event, then return
ValidateUrlFails ==
    /\ pc = "initialization"
    /\ LET parsed == urlparse(url) IN
       /\ parsed.raises \/ ~UrlIsValid(parsed)
       /\ Yield(create_workflow_output("error", "initialization", current_stage,
                                       "URL validation failed", << >>,
                                       IF parsed.raises THEN "Invalid IPv6 URL"
                                       ELSE "Invalid URL format"))
    /\ pc' = "initialization_error"
    /\ UNCHANGED << pool_vars, meta_vars, edge_vars, config_vars, response, runs, setups, proxy_cfg, current_stage, fast_vars, robust_vars, raised >>

\* the URL is accepted: current_stage += 1 and the fast-path event
ValidateUrlPasses ==
    /\ pc = "initialization"
    /\ LET parsed == urlparse(url) IN ~parsed.raises /\ UrlIsValid(parsed)
    /\ current_stage' = current_stage + 1
    /\ Yield(create_workflow_output("progress", "fast_path", current_stage + 1,
                                    "Attempting fast scrape with requests...", << >>, "None"))
    /\ pc' = "fast_path"
    /\ UNCHANGED << pool_vars, meta_vars, edge_vars, config_vars, response, runs, setups, proxy_cfg, fast_vars, robust_vars, raised >>

\* the return after the error event
ResumeInitializationError ==
    /\ pc = "initialization_error"
    /\ pc' = "done"
    /\ UNCHANGED << pool_vars, meta_vars, edge_vars, config_vars, response, runs, setups, proxy_cfg, events, current_stage, fast_vars, robust_vars, raised >>

(***************************************************************************)
(* run(): the fast path.                                                   *)
(***************************************************************************)
\* mutant: the fast-path failure is reported as an error event
EscalationNote_Error(stage_no, e) ==
    create_workflow_output("error", "fast_path", stage_no,
                           "Fast scrape failed, escalating to robust path...", << >>, e.msg)

\* the progress event of the except branch of run(): the escalation note
EscalationNote(stage_no, e) ==
    create_workflow_output("progress", "fast_path", stage_no,
                           "Fast scrape failed, escalating to robust path...", << >>, e.msg)

\* _run_fast_path raised e: except Exception in run()
FastPathRaises(e) ==
    /\ fast_outcome' = "raised"
    /\ Yield(EscalationNote(current_stage, e))
    /\ pc' = "fast_path_failed"

\* _run_fast_path returned article: the complete event
FastPathReturns(article) ==
    /\ fast_outcome' = "returned"
    /\ Yield(create_workflow_output("complete", "completion", total_stages,
                                    "Fast path successful", << article >>, "None"))
    /\ pc' = "fast_path_complete"

\* one iteration of the loop of _run_fast_path: a GET and what follows it
FastPathAttempt ==
    /\ pc = "fast_path"
    /\ attempt < retry_attempts
    /\ \E resp \in HttpResponses :
         LET r == fast_path_iteration(url, resp, attempt, retry_attempts) IN
         /\ gets' = gets + 1
         /\ response' = << [ kind |-> resp.kind, msg |-> resp.msg ] >>
         /\ CASE r.outcome = "return" ->
                   /\ FastPathReturns(r.article)
                   /\ UNCHANGED << attempt, sleeps >>
              [] r.outcome = "raise" ->
                   /\ FastPathRaises(r.exc)
                   /\ UNCHANGED << attempt, sleeps >>
              [] r.outcome = "retry" ->
                   /\ sleeps' = sleeps + 1
                   /\ attempt' = attempt + 1
                   /\ UNCHANGED << pc, events, fast_outcome >>
    /\ UNCHANGED << pool_vars, meta_vars, edge_vars, config_vars, runs, setups, proxy_cfg, current_stage, robust_vars, raised >>

\* the loop ends without an iteration left (retry_attempts = 0): _run_fast_path
\* returns None and article_data.workflow_stages raises AttributeError
FastPathLoopEnds ==
    /\ pc = "fast_path"
    /\ attempt >= retry_attempts
    /\ FastPathRaises(Exc("AttributeError", "'NoneType' object has no attribute 'workflow_stages'"))
    /\ UNCHANGED << pool_vars, meta_vars, edge_vars, config_vars, response, runs, setups, proxy_cfg, current_stage, attempt, gets, sleeps,
                    robust_vars, raised >>

\* mutant: the return after the complete event is missing
ResumeFastPathComplete_NoReturn ==
    /\ pc = "fast_path_complete"
    /\ pc' = "fast_path_failed"
    /\ UNCHANGED << pool_vars, meta_vars, edge_vars, config_vars, response, runs, setups, proxy_cfg, events, current_stage, fast_vars, robust_vars, raised >>

\* resumed after the complete event of the fast path: return
ResumeFastPathComplete ==
    /\ pc = "fast_path_complete"
    /\ pc' = "done"
    /\ UNCHANGED << pool_vars, meta_vars, edge_vars, config_vars, response, runs, setups, proxy_cfg, events, current_stage, fast_vars, robust_vars, raised >>

(***************************************************************************)
(* _run_robust_path().                                                     *)
(***************************************************************************)
\* mutant: the message names the caught base class
ErrorKindName_Base(e) == "ScraperError"

\* type(e).__name__ in the message of the except ScraperError branch
ErrorKindName(e) == e.kind

\* mutant: the error event carries the start_stage argument
RobustErrorStage_Start(start_stage, stage_no) == start_stage

\* the stage number of an error event of the robust tier: its local current_stage
RobustErrorStage(start_stage, stage_no) == stage_no

\* the error event of the except branches of _run_robust_path
RobustErrorEvent(start_stage, stage_no, e) ==
    IF IsInstance(e.kind, "ScraperError")
    THEN create_workflow_output("error", "robust_path", RobustErrorStage(start_stage, stage_no),
                                "Scraper error: " \o ErrorKindName(e), << >>, e.msg)
    ELSE create_workflow_output("error", "robust_path", RobustErrorStage(start_stage, stage_no),
                                "Unexpected error occurred", << >>, e.msg)

\* mutant: after the error event the robust tier is tried again
RobustRaises_Retry(stage_no, e) ==
    /\ robust_exc' = << e >>
    /\ Yield(RobustErrorEvent(current_stage, stage_no, e))
    /\ pc' = "fast_path_failed"

\* an exception e inside the try block at local stage stage_no
RobustRaises(stage_no, e) ==
    /\ robust_exc' = << e >>
    /\ Yield(RobustErrorEvent(current_stage, stage_no, e))
    /\ pc' = "robust_path_error"

\* run() resumed after the escalation note, self._browser is not set
EnterRobustPathNoBrowser ==
    /\ pc = "fast_path_failed"
    /\ ~browser
    /\ robust_entries' = robust_entries + 1
    /\ Yield(create_workflow_output("error", "robust_path", current_stage,
                                    "Browser not initialized", << >>,
                                    "Browser initialization failed"))
    /\ pc' = "no_browser"
    /\ UNCHANGED << pool_vars, meta_vars, edge_vars, config_vars, response, runs, setups, proxy_cfg, current_stage, fast_vars, robust_stage, context,
                    context_proxy, raw_html, proxy_lookups, contexts_created, close_calls,
                    gotos, robust_exc, navigation_outcome, raised >>

\* the return after the "Browser not initialized" event
ResumeNoBrowser ==
    /\ pc = "no_browser"
    /\ pc' = "done"
    /\ UNCHANGED << pool_vars, meta_vars, edge_vars, config_vars, response, runs, setups, proxy_cfg, events, current_stage, fast_vars, robust_vars, raised >>

\* mutant: the robust tier announces its first stage under the caller's number
EnterRobustPath_SameStage ==
    /\ pc = "fast_path_failed"
    /\ browser
    /\ robust_entries' = robust_entries + 1
    /\ robust_stage' = current_stage
    /\ Yield(create_workflow_output("progress", "robust_path", current_stage,
                                    "Creating optimized browser context...", << >>, "None"))
    /\ pc' = "robust_path"
    /\ UNCHANGED << pool_vars, meta_vars, edge_vars, config_vars, response, runs, setups, proxy_cfg, current_stage, fast_vars, context, context_proxy,
                    raw_html, proxy_lookups, contexts_created, close_calls, gotos,
                    robust_exc, navigation_outcome, raised >>

\* run() resumed after the escalation note: stage 2, browser context setup
EnterRobustPath ==
    /\ pc = "fast_path_failed"
    /\ browser
    /\ robust_entries' = robust_entries + 1
    /\ robust_stage' = current_stage + 1
    /\ Yield(create_workflow_output("progress", "robust_path", current_stage + 1,
                                    "Creating optimized browser context...", << >>, "None"))
    /\ pc' = "robust_path"
    /\ UNCHANGED << pool_vars, meta_vars, edge_vars, config_vars, response, runs, setups, proxy_cfg, current_stage, fast_vars, context, context_proxy,
                    raw_html, proxy_lookups, contexts_created, close_calls, gotos,
                    robust_exc, navigation_outcome, raised >>

\* proxy selection, new_context, stealth, route, new_page, init script
SetupOutcomes == { "ok", "new_context_raises", "setup_raises" }

CreateContext ==
    /\ pc = "robust_path"
    /\ \E manager \in ManagerOutcomes, outcome \in SetupOutcomes :
         LET settings == get_helper_proxy_settings(proxy_cfg, manager) IN
         /\ proxy_lookups' = proxy_lookups + 1
         /\ proxy_cfg' = settings.cfg
         /\ setups' = Append(setups, settings.proxy)
         /\ IF outcome = "new_context_raises"
            THEN /\ RobustRaises(robust_stage, Exc("PlaywrightError", "new_context failed"))
                 /\ UNCHANGED << context, context_proxy, contexts_created, robust_stage >>
            ELSE /\ context' = "open"
                 /\ context_proxy' = settings.proxy
                 /\ contexts_created' = contexts_created + 1
                 /\ IF outcome = "setup_raises"
                    THEN /\ RobustRaises(robust_stage, Exc("PlaywrightError", "new_page failed"))
                         /\ UNCHANGED robust_stage
                    ELSE /\ robust_stage' = robust_stage + 1
                         /\ Yield(create_workflow_output("progress", "navigation", robust_stage + 1,
                                      "Navigating with full browser capabilities...", << >>, "None"))
                         /\ pc' = "navigation"
                         /\ UNCHANGED robust_exc
    /\ UNCHANGED << pool_vars, meta_vars, edge_vars, config_vars, response, runs, current_stage, fast_vars, raw_html,
                    close_calls, gotos, robust_entries, navigation_outcome, raised >>

\* what page.goto and the steps after it can do
NavigationOutcomes == { "ok", "PlaywrightError", "Exception" }

\* _navigate_and_consent: a PlaywrightError becomes a NavigationError
navigate_and_consent(outcome) ==
    CASE outcome = "ok" -> NoException
      [] outcome = "PlaywrightError" -> Exc("NavigationError", "Playwright navigation failed")
      [] outcome = "Exception" -> Exc("Exception", "unexpected")

Navigate ==
    /\ pc = "navigation"
    /\ gotos' = gotos + 1
    /\ \E outcome \in NavigationOutcomes :
         LET e == navigate_and_consent(outcome) IN
         /\ navigation_outcome' = outcome
         /\ IF e # NoException
            THEN /\ RobustRaises(robust_stage, e)
                 /\ UNCHANGED robust_stage
            ELSE /\ robust_stage' = robust_stage + 1
                 /\ Yield(create_workflow_output("progress", "content_extraction", robust_stage + 1,
                                                 "Extracting page content...", << >>, "None"))
                 /\ pc' = "content_extraction"
                 /\ UNCHANGED robust_exc
    /\ UNCHANGED << pool_vars, meta_vars, edge_vars, config_vars, response, runs, setups, proxy_cfg, current_stage, fast_vars, context, context_proxy,
                    raw_html, proxy_lookups, contexts_created, close_calls, robust_entries,
                    raised >>

\* raw_html = await page.content()
ReadContent ==
    /\ pc = "content_extraction"
    /\ \/ /\ RobustRaises(robust_stage, Exc("PlaywrightError", "page.content failed"))
          /\ UNCHANGED << robust_stage, raw_html >>
       \/ \E page \in Pages :
            /\ raw_html' = << page >>
            /\ robust_stage' = robust_stage + 1
            /\ Yield(create_workflow_output("progress", "metadata_extraction", robust_stage + 1,
                         "Processing content and extracting metadata...", << >>, "None"))
            /\ pc' = "metadata_extraction"
            /\ UNCHANGED robust_exc
    /\ UNCHANGED << pool_vars, meta_vars, edge_vars, config_vars, response, runs, setups, proxy_cfg, current_stage, fast_vars, context, context_proxy,
                    proxy_lookups, contexts_created, close_calls, gotos, robust_entries,
                    navigation_outcome, raised >>

\* parsing and validation of raw_html, then the complete event
ProcessContent ==
    /\ pc = "metadata_extraction"
    /\ LET parsed == parse_html_content(url, raw_html[1])
           article == [ parsed.article EXCEPT !.scraped_with = RobustScrapedWith ]
           invalid == validate_article(article)
       IN  IF parsed.raises
           THEN RobustRaises(robust_stage, parsed.exc)
           ELSE IF invalid # NoException
           THEN RobustRaises(robust_stage, invalid)
           ELSE /\ Yield(create_workflow_output("complete", "completion", total_stages,
                             "Robust path completed successfully",
                             << article_metrics(article) >>, "None"))
                /\ pc' = "robust_path_complete"
                /\ UNCHANGED robust_exc
    /\ UNCHANGED << pool_vars, meta_vars, edge_vars, config_vars, response, runs, setups, proxy_cfg, current_stage, fast_vars, robust_stage, context,
                    context_proxy, raw_html, proxy_lookups, contexts_created, close_calls,
                    gotos, robust_entries, navigation_outcome, raised >>

\* resumed after the terminal event of the robust tier: the finally block
\* (context.close() may itself raise), then both generators end
CloseOutcomes == { "ok", "raises" }

\* mutant: the context is closed after the complete event only
RobustFinally_SuccessOnly ==
    /\ pc \in { "robust_path_complete", "robust_path_error" }
    /\ IF context # "None" /\ pc = "robust_path_complete"
       THEN \E outcome \in CloseOutcomes :
              /\ close_calls' = close_calls + 1
              /\ context' = IF outcome = "ok" THEN "closed" ELSE "close_failed"
              /\ raised' = (outcome = "raises")
       ELSE UNCHANGED << close_calls, context, raised >>
    /\ pc' = "done"
    /\ UNCHANGED << pool_vars, meta_vars, edge_vars, config_vars, response, runs, setups, proxy_cfg, events, current_stage, fast_vars, robust_stage,
                    context_proxy, raw_html, proxy_lookups, contexts_created, gotos,
                    robust_entries, robust_exc, navigation_outcome >>

RobustFinally ==
    /\ pc \in { "robust_path_complete", "robust_path_error" }
    /\ IF context # "None"
       THEN \E outcome \in CloseOutcomes :
              /\ close_calls' = close_calls + 1
              /\ context' = IF outcome = "ok" THEN "closed" ELSE "close_failed"
              /\ raised' = (outcome = "raises")
       ELSE UNCHANGED << close_calls, context, raised >>
    /\ pc' = "done"
    /\ UNCHANGED << pool_vars, meta_vars, edge_vars, config_vars, response, runs, setups, proxy_cfg, events, current_stage, fast_vars, robust_stage,
                    context_proxy, raw_html, proxy_lookups, contexts_created, gotos,
                    robust_entries, robust_exc, navigation_outcome >>

Next ==
    \/ RunStart
    \/ ValidateUrlFails
    \/ ValidateUrlPasses
    \/ ResumeInitializationError
    \/ FastPathAttempt
    \/ FastPathLoopEnds
    \/ ResumeFastPathComplete
    \/ EnterRobustPathNoBrowser
    \/ ResumeNoBrowser
    \/ EnterRobustPath
    \/ CreateContext
    \/ Navigate
    \/ ReadContent
    \/ ProcessContent
    \/ RobustFinally

Spec == Init /\ [][Next]_vars

(***************************************************************************)
(* A consumer that stops iterating (break or return inside async for).     *)
(* The abandoned generator is closed by the event loop's asynchronous      *)
(* generator finalizer: aclose() throws GeneratorExit at the yield where   *)
(* the generator is suspended.                                             *)
(***************************************************************************)
\* the yields inside the try block of _run_robust_path
TryYields ==
    { "robust_path", "navigation", "content_extraction", "metadata_extraction",
      "robust_path_complete", "robust_path_error" }

\* the generator is suspended at a yield, an event was just delivered
SuspendedAtYield ==
    \/ pc \in { "initialization", "initialization_error", "fast_path_complete",
                "fast_path_failed", "no_browser" }
    \/ pc = "fast_path" /\ gets = 0
    \/ pc \in TryYields

\* the consumer leaves its async for loop after the event just delivered
Abandon ==
    /\ SuspendedAtYield
    /\ pc' = IF pc \in TryYields THEN "abandoned_in_try" ELSE "abandoned"
    /\ UNCHANGED << pool_vars, meta_vars, edge_vars, config_vars, response, runs, setups, proxy_cfg, events, current_stage, fast_vars, robust_vars, raised >>

\* aclose() of a run() that is not inside _run_robust_path's try block:
\* GeneratorExit ends the generator, no handler runs
FinalizeRun ==
    /\ pc = "abandoned"
    /\ pc' = "finalized"
    /\ UNCHANGED << pool_vars, meta_vars, edge_vars, config_vars, response, runs, setups, proxy_cfg, events, current_stage, fast_vars, robust_vars, raised >>

\* mutant: context.close() follows the try statement instead of being in its finally
FinalizeRobustPath_NoFinally ==
    /\ pc = "abandoned_in_try"
    /\ pc' = "finalized"
    /\ UNCHANGED << pool_vars, meta_vars, edge_vars, config_vars, response, runs, setups, proxy_cfg, events, current_stage, fast_vars, robust_vars, raised >>

\* aclose() of a generator suspended inside the try block: GeneratorExit is
\* no Exception, so no except branch runs; the finally block closes the
\* context (an exception of close() goes to the loop, not to the consumer)
FinalizeRobustPath ==
    /\ pc = "abandoned_in_try"
    /\ IF context # "None"
       THEN \E outcome \in CloseOutcomes :
              /\ close_calls' = close_calls + 1
              /\ context' = IF outcome = "ok" THEN "closed" ELSE "close_failed"
       ELSE UNCHANGED << close_calls, context >>
    /\ pc' = "finalized"
    /\ UNCHANGED << pool_vars, meta_vars, edge_vars, config_vars, response, runs, setups, proxy_cfg, events, current_stage, fast_vars, robust_stage,
                    context_proxy, raw_html, proxy_lookups, contexts_created, gotos,
                    robust_entries, robust_exc, navigation_outcome, raised >>

NextAbandon ==
    \/ Next
    \/ Abandon
    \/ FinalizeRun
    \/ FinalizeRobustPath

\* the event loop runs the finalizers it has scheduled
SpecAbandon ==
    Init /\ [][NextAbandon]_vars /\ WF_vars(FinalizeRun) /\ WF_vars(FinalizeRobustPath)

(***************************************************************************)
(* One scraper used for several calls of run(), one after the other, as    *)
(* proxy_example.py does; between two calls the consumer may change the    *)
(* proxy configuration.  Only the context set-up reads that configuration, *)
(* so a change made while a run is suspended acts like one made before or  *)
(* after the run.                                                          *)
(***************************************************************************)
MaxRuns == 3                \* bound: calls of run() on one scraper

\* the lists enable_helper_proxy_rotation is called with
ProxyLists == { << "http://p1:8080" >>, << "http://p1:8080", "http://p2:8080" >> }

\* the consumer calls run() again: a new generator with fresh locals, the
\* scraper's configuration as the earlier calls left it
NewRun ==
    /\ pc = "done"
    /\ runs + 1 < MaxRuns
    /\ runs' = runs + 1
    /\ pc' = "start"
    /\ events' = << >>
    /\ current_stage' = 0
    /\ robust_stage' = 0
    /\ attempt' = 0
    /\ context' = "None"
    /\ context_proxy' = "None"
    /\ raw_html' = << >>
    /\ gets' = 0
    /\ sleeps' = 0
    /\ proxy_lookups' = 0
    /\ contexts_created' = 0
    /\ close_calls' = 0
    /\ gotos' = 0
    /\ robust_entries' = 0
    /\ fast_outcome' = "pending"
    /\ robust_exc' = << >>
    /\ navigation_outcome' = "pending"
    /\ raised' = FALSE
    /\ response' = << >>
    /\ UNCHANGED << pool_vars, meta_vars, edge_vars, config_vars, proxy_cfg, setups >>

\* enable_helper_proxy_rotation(proxy_list) with a non-empty list; the
\* record of set-ups starts again with the new list
EnableHelperProxyRotation(proxy_list) ==
    /\ pc = "start"
    /\ proxy_cfg' = [ proxy_cfg EXCEPT !.helper_proxy_enabled = TRUE, !.rotation = "dict",
                                       !.rotation_enabled = TRUE, !.proxy_list = proxy_list,
                                       !.current_index = 0 ]
    /\ setups' = << >>
    /\ UNCHANGED << pool_vars, meta_vars, edge_vars, config_vars, response, runs, pc, events, current_stage,
                    fast_vars, robust_vars, raised >>

\* disable_helper_proxy
DisableHelperProxy ==
    /\ pc = "start"
    /\ proxy_cfg' = [ proxy_cfg EXCEPT !.helper_proxy_enabled = FALSE ]
    /\ UNCHANGED << pool_vars, meta_vars, edge_vars, config_vars, response, runs, setups, pc, events,
                    current_stage, fast_vars, robust_vars, raised >>

NextRuns ==
    \/ Next
    \/ NewRun
    \/ \E proxy_list \in ProxyLists : EnableHelperProxyRotation(proxy_list)
    \/ DisableHelperProxy

SpecRuns == Init /\ [][NextRuns]_vars

(***************************************************************************)
(* _extract_universal_metadata on one document, one step per JSON-LD       *)
(* block and per strategy.                                                 *)
(***************************************************************************)
run_vars == << config_vars, proxy_cfg, pc, events, current_stage, fast_vars, robust_vars, raised,
              response, runs, setups >>

InitMeta ==
    /\ soup \in Soups
    /\ metadata = Metadata
    /\ meta_pc = "json_ld"
    /\ ld_index = 1
    /\ RunIdle
    /\ PoolFresh
    /\ PoolDefaults
    /\ UnitsIdle
    /\ EdgeIdle

\* one script tag of the loop of _strategy_extract_from_json_ld
ExtractJsonLdBlock ==
    /\ meta_pc = "json_ld"
    /\ ld_index <= Len(soup.ld_json)
    /\ LET result == json_ld_block(soup.ld_json[ld_index], metadata)
       IN  /\ metadata' = result.metadata
           /\ IF result.raises
              THEN meta_pc' = "raised" /\ UNCHANGED ld_index
              ELSE ld_index' = ld_index + 1 /\ UNCHANGED meta_pc
    /\ UNCHANGED << soup, run_vars, pool_vars, edge_vars >>

\* the loop has no script tag left
JsonLdLoopEnds ==
    /\ meta_pc = "json_ld"
    /\ ld_index > Len(soup.ld_json)
    /\ meta_pc' = "tags"
    /\ UNCHANGED << soup, metadata, ld_index, run_vars, pool_vars, edge_vars >>

\* strategy 2, run when a field still holds its default
ExtractFromTags ==
    /\ meta_pc = "tags"
    /\ metadata' = IF \/ metadata.author = UNKNOWN_AUTHOR
                      \/ metadata.publication_date_utc = DATE_NOT_APPLICABLE
                   THEN strategy_extract_from_tags(soup, metadata)
                   ELSE metadata
    /\ meta_pc' = "attributes"
    /\ UNCHANGED << soup, ld_index, run_vars, pool_vars, edge_vars >>

\* strategy 3, run when the date still holds its default; then return metadata
ExtractFromAttributes ==
    /\ meta_pc = "attributes"
    /\ metadata' = IF metadata.publication_date_utc = DATE_NOT_APPLICABLE
                   THEN strategy_extract_from_attributes(soup, metadata)
                   ELSE metadata
    /\ meta_pc' = "done"
    /\ UNCHANGED << soup, ld_index, run_vars, pool_vars, edge_vars >>

NextMeta ==
    \/ ExtractJsonLdBlock
    \/ JsonLdLoopEnds
    \/ ExtractFromTags
    \/ ExtractFromAttributes

SpecMeta == InitMeta /\ [][NextMeta]_vars

(***************************************************************************)
(* The operations of FreeProxyManager; every await is a step boundary.     *)
(***************************************************************************)
InitPool ==
    /\ PoolFresh
    /\ max_proxies = SmallCap
    /\ max_concurrent = DefaultMaxConcurrent
    /\ UnitsIdle
    /\ MetaIdle
    /\ EdgeIdle
    /\ RunIdle

pool_ghosts == << calls_made, direct_validations, validation_failures, prev_call, pair,
                  merged_size, fresh_selection >>

\* time passes
Tick ==
    /\ now < MaxTicks * (fetch_interval \div 2)
    /\ now' = now + fetch_interval \div 2
    /\ UNCHANGED << working_proxies, working_list, failed_proxies, last_fetch, refresh,
                    selected, direct, pool_ghosts, meta_vars, edge_vars, run_vars, pool_config, pool_units >>

\* the identities of the ProxyInfo objects something still refers to
LiveIds ==
    { working_proxies[i].id : i \in DOMAIN working_proxies }
      \cup { selected.id, direct.id }
      \cup UNION { { refresh[p].new_proxies[i].id : i \in DOMAIN refresh[p].new_proxies } : p \in Procs }

RECURSIVE FreshId(_, _)
\* the k-th smallest identity above n that no live object has
FreshId(k, n) ==
    IF n + 1 \in LiveIds THEN FreshId(k, n + 1)
    ELSE IF k = 1 THEN n + 1
    ELSE FreshId(k - 1, n + 1)

\* the two-call history kept for the properties: call ends the call of a
\* task that began it after the call after and met no other call
EndCall(call, after, alone) ==
    /\ prev_call' = call
    /\ pair' = IF alone /\ after # NoCall THEN << after, call >> ELSE << >>

\* refresh_proxies up to its first await: inside the cooldown it returns
\* self.working_proxies, else it goes on to fetch_proxies_from_sources.
\* The tasks are interchangeable: a call runs in the lowest task that is free.
RefreshBegin(p, force) ==
    /\ refresh[p].phase = "idle"
    /\ \A q \in Procs : q < p => refresh[q].phase # "idle"
    /\ calls_made < MaxRefreshCalls
    /\ calls_made' = calls_made + 1
    /\ LET alone == \A q \in Procs \ { p } : refresh[q].phase = "idle"
       IN  IF cooldown_active(force, last_fetch, now)
           THEN /\ EndCall(Call(force, now, FALSE, 0, working_list), prev_call, alone)
                /\ UNCHANGED refresh
           ELSE /\ refresh' = [ q \in Procs |->
                                  IF q = p
                                  THEN [ IdleRefresh EXCEPT !.phase = "fetching", !.force = force,
                                                            !.begin = now, !.after = prev_call,
                                                            !.alone = alone ]
                                  ELSE [ refresh[q] EXCEPT !.alone = FALSE ] ]
                /\ UNCHANGED << prev_call, pair >>
    /\ UNCHANGED << now, working_proxies, working_list, failed_proxies, last_fetch, selected,
                    direct, direct_validations, validation_failures, merged_size,
                    fresh_selection, meta_vars, edge_vars, run_vars, pool_config, pool_units >>

\* mutant: the early return on an empty fetch stamps last_fetch
RefreshFetched_StampsEmpty(p, raw) ==
    /\ refresh[p].phase = "fetching"
    /\ LET new_proxies ==
               remove_duplicates([ i \in 1..Len(raw) |-> ProxyInfo(FreshId(i, 0), raw[i]) ], {})
       IN  IF new_proxies = << >>
           THEN /\ EndCall(Call(refresh[p].force, refresh[p].begin, TRUE, 0, working_list),
                           refresh[p].after, refresh[p].alone)
                /\ refresh' = [ refresh EXCEPT ![p] = IdleRefresh ]
                /\ last_fetch' = << now >>
           ELSE /\ refresh' = [ refresh EXCEPT ![p].phase = "validating",
                                               ![p].new_proxies = new_proxies,
                                               ![p].probe = [ i \in DOMAIN new_proxies |-> "waiting" ] ]
                /\ UNCHANGED << prev_call, pair, last_fetch >>
    /\ UNCHANGED << now, working_proxies, working_list, failed_proxies, selected,
                    direct, calls_made, direct_validations, validation_failures, merged_size,
                    fresh_selection, meta_vars, edge_vars, run_vars, pool_config, pool_units >>

\* fetch_proxies_from_sources returns; with no candidate the call returns
\* self.working_proxies at once, else validate_proxies creates its tasks
RefreshFetched(p, raw) ==
    /\ refresh[p].phase = "fetching"
    /\ LET new_proxies ==
               remove_duplicates([ i \in 1..Len(raw) |-> ProxyInfo(FreshId(i, 0), raw[i]) ], {})
       IN  IF new_proxies = << >>
           THEN /\ EndCall(Call(refresh[p].force, refresh[p].begin, TRUE, 0, working_list),
                           refresh[p].after, refresh[p].alone)
                /\ refresh' = [ refresh EXCEPT ![p] = IdleRefresh ]
           ELSE /\ refresh' = [ refresh EXCEPT ![p].phase = "validating",
                                               ![p].new_proxies = new_proxies,
                                               ![p].probe = [ i \in DOMAIN new_proxies |-> "waiting" ] ]
                /\ UNCHANGED << prev_call, pair >>
    /\ UNCHANGED << now, working_proxies, working_list, failed_proxies, last_fetch, selected,
                    direct, calls_made, direct_validations, validation_failures, merged_size,
                    fresh_selection, meta_vars, edge_vars, run_vars, pool_config, pool_units >>

\* one more failed validation of the address
CountFailure(addr) ==
    [ validation_failures EXCEPT ![addr] = IF @ < 3 THEN @ + 1 ELSE @ ]

\* the candidates of the batch that hold the semaphore of validate_proxies
InFlight(p) == { i \in DOMAIN refresh[p].probe : refresh[p].probe[i] = "probing" }

\* mutant: validate_single does not wait for the semaphore
SemaphoreFree_NoGate(p) == TRUE

\* async with semaphore: a task gets in while fewer than max_concurrent hold it
SemaphoreFree(p) == Cardinality(InFlight(p)) < max_concurrent

\* mutant: validate_proxy without the look-up in failed_proxies
ProbeStart_Retries(p, i) ==
    /\ refresh[p].phase = "validating"
    /\ i \in DOMAIN refresh[p].probe
    /\ refresh[p].probe[i] = "waiting"
    /\ SemaphoreFree(p)
    /\ refresh' = [ refresh EXCEPT ![p].probe[i] = "probing" ]
    /\ UNCHANGED << now, working_proxies, working_list, failed_proxies, last_fetch, selected,
                    direct, pool_ghosts, meta_vars, edge_vars, run_vars, pool_config, pool_units >>

\* validate_single of candidate i from the semaphore up to the request of
\* validate_proxy: a known-bad address returns False without a request
ProbeStart(p, i) ==
    /\ refresh[p].phase = "validating"
    /\ i \in DOMAIN refresh[p].probe
    /\ refresh[p].probe[i] = "waiting"
    /\ SemaphoreFree(p)
    /\ refresh' = [ refresh EXCEPT ![p].probe[i] =
                      IF refresh[p].new_proxies[i].addr \in failed_proxies
                      THEN "done" ELSE "probing" ]
    /\ UNCHANGED << now, working_proxies, working_list, failed_proxies, last_fetch, selected,
                    direct, pool_ghosts, meta_vars, edge_vars, run_vars, pool_config, pool_units >>

\* the request of candidate i ends; a working candidate is appended to the
\* local list of validate_proxies
ProbeFinish(p, i, outcome, speed) ==
    /\ refresh[p].phase = "validating"
    /\ i \in DOMAIN refresh[p].probe
    /\ refresh[p].probe[i] = "probing"
    /\ LET result == validate_proxy_result(refresh[p].new_proxies[i], failed_proxies, outcome, speed)
       IN  /\ refresh' = [ refresh EXCEPT ![p].probe[i] = "done",
                                          ![p].new_proxies[i] = result.proxy,
                                          ![p].working_new =
                                              IF result.result THEN Append(@, result.proxy) ELSE @ ]
           /\ failed_proxies' = result.failed_proxies
           /\ validation_failures' = IF result.result THEN validation_failures
                                     ELSE CountFailure(refresh[p].new_proxies[i].addr)
    /\ fresh_selection' = FALSE
    /\ UNCHANGED << now, working_proxies, working_list, last_fetch, selected, direct,
                    calls_made, direct_validations, prev_call, pair, merged_size,
                    meta_vars, edge_vars, run_vars, pool_config, pool_units >>

\* mutant: the merge starts from the list as it was read before the awaits,
\* here the empty list of a pool that has not been refreshed
RefreshCommit_FromSnapshot(p) ==
    /\ refresh[p].phase = "validating"
    /\ \A i \in DOMAIN refresh[p].probe : refresh[p].probe[i] = "done"
    /\ working_proxies' = merge_working(IF refresh[p].alone THEN working_proxies ELSE << >>,
                                        refresh[p].working_new)
    /\ working_list' = working_list + 1
    /\ last_fetch' = << now >>
    /\ merged_size' = Len(all_working(working_proxies, refresh[p].working_new))
    /\ EndCall(Call(refresh[p].force, refresh[p].begin, TRUE, Len(refresh[p].new_proxies),
                    working_list + 1),
               refresh[p].after, refresh[p].alone)
    /\ refresh' = [ refresh EXCEPT ![p] = IdleRefresh ]
    /\ UNCHANGED << now, failed_proxies, selected, direct, calls_made, direct_validations,
                    validation_failures, fresh_selection, meta_vars, edge_vars, run_vars, pool_config, pool_units >>

\* validate_proxies returns and refresh_proxies runs to its end without
\* another await: merge, deduplicate, sort, cut, assign, stamp
RefreshCommit(p) ==
    /\ refresh[p].phase = "validating"
    /\ \A i \in DOMAIN refresh[p].probe : refresh[p].probe[i] = "done"
    /\ working_proxies' = merge_working(working_proxies, refresh[p].working_new)
    /\ working_list' = working_list + 1
    /\ last_fetch' = << now >>
    /\ merged_size' = Len(all_working(working_proxies, refresh[p].working_new))
    /\ EndCall(Call(refresh[p].force, refresh[p].begin, TRUE, Len(refresh[p].new_proxies),
                    working_list + 1),
               refresh[p].after, refresh[p].alone)
    /\ refresh' = [ refresh EXCEPT ![p] = IdleRefresh ]
    /\ UNCHANGED << now, failed_proxies, selected, direct, calls_made, direct_validations,
                    validation_failures, fresh_selection, meta_vars, edge_vars, run_vars, pool_config, pool_units >>

\* mutant: the weight is the success count alone
weights_NoPlusOne(proxies) == [ i \in DOMAIN proxies |-> proxies[i].success_count ]

\* weights = [proxy.success_count + 1 for proxy in self.working_proxies]
weights(proxies) == [ i \in DOMAIN proxies |-> proxies[i].success_count + 1 ]

RECURSIVE Total(_)
\* the sum random.choices takes of the weights
Total(w) == IF w = << >> THEN 0 ELSE Head(w) + Total(Tail(w))

\* random.choices raised ValueError: the weights sum to zero
ChoicesError == [ NoProxy EXCEPT !.addr = "ValueError" ]

\* get_random_proxy, called by a caller that is not waiting for its own
\* validate_proxy: None on an empty list, else a record drawn with
\* random.choices, which gives any record of positive weight
GetRandomProxy ==
    /\ direct = NoProxy
    /\ selected # ChoicesError
    /\ IF working_proxies = << >>
       THEN selected' = NoProxy
       ELSE IF Total(weights(working_proxies)) <= 0
       THEN selected' = ChoicesError
       ELSE \E i \in DOMAIN working_proxies :
                /\ weights(working_proxies)[i] > 0
                /\ selected' = working_proxies[i]
    /\ fresh_selection' = TRUE
    /\ UNCHANGED << now, working_proxies, working_list, failed_proxies, last_fetch, refresh,
                    direct, calls_made, direct_validations, validation_failures, prev_call,
                    pair, merged_size, meta_vars, edge_vars, run_vars, pool_config, pool_units >>

\* a caller validates the proxy it was given (helper_proxy_example.py)
ValidateSelectedStart ==
    /\ selected # NoProxy
    /\ direct = NoProxy
    /\ direct_validations < MaxDirectValidations
    /\ direct_validations' = direct_validations + 1
    /\ direct' = IF selected.addr \in failed_proxies THEN NoProxy ELSE selected
    /\ UNCHANGED << now, working_proxies, working_list, failed_proxies, last_fetch, refresh,
                    selected, calls_made, validation_failures, prev_call, pair, merged_size,
                    fresh_selection, meta_vars, edge_vars, run_vars, pool_config, pool_units >>

\* the list with the object of proxy's identity in its new state
Put(proxies, proxy) ==
    [ i \in DOMAIN proxies |-> IF proxies[i].id = proxy.id THEN proxy ELSE proxies[i] ]

\* validate_proxy from the end of its request on (lines 241-256), on the
\* object the caller passed
ValidateSelectedRequest(outcome, speed) ==
    /\ direct # NoProxy
    /\ LET result == validate_proxy_result(direct, failed_proxies, outcome, speed)
       IN  /\ working_proxies' = Put(working_proxies, result.proxy)
           /\ selected' = IF selected.id = direct.id THEN result.proxy ELSE selected
           /\ failed_proxies' = result.failed_proxies
           /\ validation_failures' = IF result.result THEN validation_failures
                                     ELSE CountFailure(direct.addr)
    /\ direct' = NoProxy
    /\ fresh_selection' = FALSE
    /\ UNCHANGED << now, working_list, last_fetch, refresh, calls_made, direct_validations,
                    prev_call, pair, merged_size, meta_vars, edge_vars, run_vars, pool_config >>

\* the request of the caller's validation ends
ValidateSelectedFinish(outcome, speed) ==
    /\ ValidateSelectedRequest(outcome, speed)
    /\ UNCHANGED pool_units

NextPool ==
    \/ Tick
    \/ \E p \in Procs, force \in BOOLEAN : RefreshBegin(p, force)
    \/ \E p \in Procs, raw \in FetchResults : RefreshFetched(p, raw)
    \/ \E p \in Procs, i \in 1..Cardinality(Addrs) : ProbeStart(p, i)
    \/ \E p \in Procs, i \in 1..Cardinality(Addrs), speed \in Speeds : ProbeFinish(p, i, "ok", speed)
    \/ \E p \in Procs, i \in 1..Cardinality(Addrs), outcome \in ProbeOutcomes \ { "ok" } :
         ProbeFinish(p, i, outcome, 0)
    \/ \E p \in Procs : RefreshCommit(p)
    \/ GetRandomProxy
    \/ ValidateSelectedStart
    \/ \E speed \in Speeds : ValidateSelectedFinish("ok", speed)
    \/ \E outcome \in ProbeOutcomes \ { "ok" } : ValidateSelectedFinish(outcome, 0)

SpecPool == InitPool /\ [][NextPool]_vars

(***************************************************************************)
(* refresh_proxies on a manager whose cap and semaphore are small enough   *)
(* for the batch to meet them, with two latencies; get_random_proxy reads  *)
(* the working set at any moment.                                          *)
(***************************************************************************)
MaxCap == 2                 \* bound: largest max_proxies tried
MaxConcurrent == 2          \* bound: largest max_concurrent tried

Latencies == { 1, 2 }       \* a faster and a slower measured response time

InitRefresh ==
    /\ PoolFresh
    /\ max_proxies \in 1..MaxCap
    /\ max_concurrent \in 1..MaxConcurrent
    /\ UnitsIdle
    /\ MetaIdle
    /\ EdgeIdle
    /\ RunIdle

NextRefresh ==
    \/ \E p \in Procs, force \in BOOLEAN : RefreshBegin(p, force)
    \/ \E p \in Procs, raw \in FetchResults : RefreshFetched(p, raw)
    \/ \E p \in Procs, i \in 1..Cardinality(Addrs) : ProbeStart(p, i)
    \/ \E p \in Procs, i \in 1..Cardinality(Addrs), speed \in Latencies : ProbeFinish(p, i, "ok", speed)
    \/ \E p \in Procs, i \in 1..Cardinality(Addrs), outcome \in ProbeOutcomes \ { "ok" } :
         ProbeFinish(p, i, outcome, 0)
    \/ \E p \in Procs : RefreshCommit(p)
    \/ GetRandomProxy

SpecRefresh == InitRefresh /\ [][NextRefresh]_vars

(***************************************************************************)
(* One task refreshing at a time while a caller validates the proxies it   *)
(* is given, so that the records of the working set differ in success      *)
(* count and in latency when the next refresh ranks them.                  *)
(***************************************************************************)
InitRank ==
    /\ PoolFresh
    /\ max_proxies \in 1..MaxCap
    /\ max_concurrent = DefaultMaxConcurrent
    /\ UnitsIdle
    /\ MetaIdle
    /\ EdgeIdle
    /\ RunIdle

NextRank ==
    \/ \E force \in BOOLEAN : RefreshBegin(1, force)
    \/ \E raw \in FetchResults : RefreshFetched(1, raw)
    \/ \E i \in 1..Cardinality(Addrs) : ProbeStart(1, i)
    \/ \E i \in 1..Cardinality(Addrs), speed \in Latencies : ProbeFinish(1, i, "ok", speed)
    \/ \E i \in 1..Cardinality(Addrs), outcome \in ProbeOutcomes \ { "ok" } :
         ProbeFinish(1, i, outcome, 0)
    \/ RefreshCommit(1)
    \/ GetRandomProxy
    \/ ValidateSelectedStart
    \/ \E speed \in Latencies : ValidateSelectedFinish("ok", speed)
    \/ \E outcome \in ProbeOutcomes \ { "ok" } : ValidateSelectedFinish(outcome, 0)

SpecRank == InitRank /\ [][NextRank]_vars

(***************************************************************************)
(* fetch_proxies_from_sources: every source either gives a list of         *)
(* proxies or raises.                                                      *)
(***************************************************************************)
MaxSourceLen == 2           \* bound: proxies one source gives

\* the sources in the order they are asked
SourceNames == << "FreeProxyList.net", "ProxyScrape.com", "Geonode", "ProxyNova" >>

\* what one _fetch_from_... call does: it raises, or returns ip:port keys
SourceOutcomes ==
    [ raises : { TRUE }, proxies : { << >> } ]
      \cup [ raises : { FALSE }, proxies : UNION { [ 1..n -> Addrs ] : n \in 0..MaxSourceLen } ]

RECURSIVE extend_all(_, _)
\* all_proxies after the sources from k on were asked: a source that raises
\* adds nothing and the next one is asked
extend_all(srcs, k) ==
    IF k > Len(srcs) THEN << >>
    ELSE (IF srcs[k].raises THEN << >> ELSE srcs[k].proxies) \o extend_all(srcs, k + 1)

\* the ProxyInfo objects the sources made, one for each entry
NewRecords(raw) == [ i \in 1..Len(raw) |-> ProxyInfo(i, raw[i]) ]

\* mutant: the exception of a source is not caught
fetch_proxies_from_sources_Uncaught(srcs) ==
    IF \E k \in DOMAIN srcs : srcs[k].raises
    THEN [ raised |-> TRUE, proxies |-> << >> ]
    ELSE [ raised |-> FALSE,
           proxies |-> remove_duplicates(NewRecords(extend_all(srcs, 1)), {}) ]

\* fetch_proxies_from_sources: the lists of the sources that did not raise,
\* one after the other, without the later records of an ip:port
fetch_proxies_from_sources(srcs) ==
    [ raised |-> FALSE,
      proxies |-> remove_duplicates(NewRecords(extend_all(srcs, 1)), {}) ]

InitFetch ==
    /\ PoolFresh
    /\ PoolDefaults
    /\ probe_log = << >>
    /\ sources \in [ DOMAIN SourceNames -> SourceOutcomes ]
    /\ fetch_result = << >>
    /\ MetaIdle
    /\ EdgeIdle
    /\ RunIdle

\* one call of fetch_proxies_from_sources, from its first line to its return
FetchProxiesFromSources ==
    /\ sources # << >>
    /\ fetch_result = << >>
    /\ fetch_result' = << fetch_proxies_from_sources(sources) >>
    /\ UNCHANGED << now, working_proxies, working_list, failed_proxies, last_fetch, refresh,
                    selected, direct, pool_ghosts, meta_vars, edge_vars, run_vars, pool_config,
                    probe_log, sources >>

NextFetch == FetchProxiesFromSources

SpecFetch == InitFetch /\ [][NextFetch]_vars

(***************************************************************************)
(* validate_proxy called again and again on one record: a caller holds a   *)
(* ProxyInfo and awaits validate_proxy(proxy) as helper_proxy_example.py   *)
(* does; what every request gave is written down.                          *)
(***************************************************************************)
\* what one request of validate_proxy gave
Probe(outcome, speed) == [ outcome |-> outcome, speed |-> speed ]

InitValidate ==
    /\ PoolFresh
    /\ PoolDefaults
    /\ UnitsIdle
    /\ MetaIdle
    /\ EdgeIdle
    /\ RunIdle

\* the caller makes the ProxyInfo it is going to test
NewProxyInfo(addr) ==
    /\ selected = NoProxy
    /\ selected' = ProxyInfo(1, addr)
    /\ UNCHANGED << now, working_proxies, working_list, failed_proxies, last_fetch, refresh,
                    direct, pool_ghosts, meta_vars, edge_vars, run_vars, pool_config, pool_units >>

\* the request of the caller's validation ends and its result is noted
ValidateSelectedNoted(outcome, speed) ==
    /\ ValidateSelectedRequest(outcome, speed)
    /\ probe_log' = Append(probe_log, Probe(outcome, speed))
    /\ UNCHANGED << sources, fetch_result >>

NextValidate ==
    \/ \E addr \in Addrs : NewProxyInfo(addr)
    \/ ValidateSelectedStart
    \/ \E speed \in Speeds : ValidateSelectedNoted("ok", speed)
    \/ \E outcome \in ProbeOutcomes \ { "ok" } : ValidateSelectedNoted(outcome, 0)

SpecValidate == InitValidate /\ [][NextValidate]_vars

(***************************************************************************)
(* Properties of the workflow.                                             *)
(***************************************************************************)
IsTerminal(event) == event.status \in { "complete", "error" }

LastEvent == events[Len(events)]

\* the URL parses and lacks a scheme or a host
UrlMalformed ==
    /\ ~urlparse(url).raises
    /\ urlparse(url).scheme = "" \/ urlparse(url).netloc = ""

RobustStages == { "robust_path", "navigation", "content_extraction", "metadata_extraction" }

\* C1: for every URL and every outcome of the two tiers, a terminal event
\* (complete or error) is the last event yielded, every event before it is
\* a progress event, and an exhausted run has yielded exactly one terminal event.
C1_ExactlyOneTerminalEventLast ==
    /\ \A i \in 1..Len(events) :
         IF i < Len(events) THEN events[i].status = "progress"
         ELSE events[i].status \in { "progress", "complete", "error" }
    /\ pc = "done" => Len(events) >= 1 /\ IsTerminal(LastEvent)

C1_Witness ==
    /\ pc = "done"
    /\ urlparse(url).scheme = "https" /\ urlparse(url).netloc = "example.com"
    /\ robust_entries = 1
    /\ Len(events) = 8
    /\ LastEvent.status = "complete"

\* C2: current_stage never decreases from one yielded event to the next.
C2_CurrentStageNonDecreasing ==
    \A i \in 1..(Len(events) - 1) : events[i].current_stage <= events[i + 1].current_stage

C2_Witness ==
    /\ pc = "done"
    /\ Len(events) = 8
    /\ LastEvent.status = "error"
    /\ LastEvent.current_stage = 6
    /\ events[3].current_stage = 2

\* C3: a run on a URL without scheme or host issues no GET, looks up no proxy,
\* creates no context and navigates nowhere, and it ends with an error event
\* of the initialization stage with current_stage 1.
C3_MalformedUrlNoNetwork ==
    UrlMalformed =>
        /\ gets = 0 /\ proxy_lookups = 0 /\ contexts_created = 0 /\ gotos = 0
        /\ robust_entries = 0
        /\ pc = "done" =>
             /\ LastEvent.status = "error"
             /\ LastEvent.stage = "initialization"
             /\ LastEvent.current_stage = 1

C3_Witness ==
    /\ pc = "done"
    /\ urlparse(url).scheme = "" /\ urlparse(url).netloc = "example.com"
    /\ LastEvent.error = "Invalid URL format"

\* C4 as claimed: on a URL without scheme or host the first event yielded is
\* the terminal error event.
C4_FirstEventIsError ==
    UrlMalformed /\ Len(events) >= 1 => events[1].status = "error"

\* C4 amended: on a URL without scheme or host exactly one progress event
\* (initialization, current_stage 1) precedes the terminal error event, which
\* is the second and last event.
C4_ErrorIsSecondEvent ==
    UrlMalformed =>
        /\ Len(events) <= 2
        /\ Len(events) >= 1 =>
             /\ events[1].status = "progress"
             /\ events[1].stage = "initialization"
             /\ events[1].current_stage = 1
        /\ Len(events) = 2 => events[2].status = "error"
        /\ pc = "done" => Len(events) = 2

C4_Witness ==
    /\ UrlMalformed
    /\ pc = "initialization_error"
    /\ Len(events) = 2

\* C5: when _run_fast_path returns an article, the run ends with a complete
\* event whose article has scraped_with = "requests", no event of a robust
\* stage is yielded, no proxy is looked up and no context is created.
C5_FastPathSuccessStaysFast ==
    fast_outcome = "returned" =>
        /\ LastEvent.status = "complete"
        /\ LastEvent.data[1].scraped_with = "requests"
        /\ \A i \in 1..Len(events) : events[i].stage \notin RobustStages
        /\ robust_entries = 0 /\ proxy_lookups = 0 /\ contexts_created = 0 /\ gotos = 0

C5_Witness ==
    /\ pc = "done"
    /\ fast_outcome = "returned"
    /\ gets = 2 /\ sleeps = 1
    /\ LastEvent.data[1].scraped_with = "requests"

\* C6: no error event of the fast_path stage is ever yielded; when the fast
\* path fails, the event after its announcement is a progress note of the
\* fast_path stage carrying the error text, and the run then enters the
\* robust tier.
C6_FastPathFailureEscalates ==
    /\ \A i \in 1..Len(events) :
         ~(events[i].status = "error" /\ events[i].stage = "fast_path")
    /\ fast_outcome = "raised" =>
         /\ Len(events) >= 3
         /\ events[3].status = "progress"
         /\ events[3].stage = "fast_path"
         /\ events[3].error # "None"
         /\ pc # "fast_path_failed" => robust_entries = 1

C6_Witness ==
    /\ pc = "done"
    /\ fast_outcome = "raised"
    /\ events[3].error = "Requests failed to fetch URL: 404 Client Error"
    /\ robust_entries = 1
    /\ LastEvent.status = "complete"

\* C7: the robust tier is entered at most once, creates at most one context
\* and navigates at most once; once it has failed, the error event is the
\* last event and no GET, navigation, context or event follows.
C7_OneEscalationFailureTerminal ==
    /\ [](/\ robust_entries <= 1 /\ contexts_created <= 1 /\ gotos <= 1
          /\ robust_exc # << >> => LastEvent.status = "error")
    /\ [][robust_exc # << >> =>
            /\ events' = events
            /\ gets' = gets /\ gotos' = gotos
            /\ contexts_created' = contexts_created
            /\ robust_entries' = robust_entries]_vars

C7_Witness ==
    /\ pc = "done"
    /\ robust_exc # << >>
    /\ robust_exc[1].kind = "NavigationError"
    /\ gets = 2 /\ gotos = 1 /\ contexts_created = 1

\* C8 as claimed: no complete event carries an article whose markdown is
\* shorter than MINIMUM_CONTENT_LENGTH characters or contains a decoy phrase
\* in any letter case.
C8_NoShortOrDecoyArticle ==
    \A i \in 1..Len(events) :
        events[i].status = "complete" =>
            LET markdown == events[i].data[1].markdown IN
            /\ StrLen(markdown) >= MINIMUM_CONTENT_LENGTH
            /\ \A j \in 1..Len(markdown) : LowerTok(markdown[j].tok) \notin DECOY_PAGE_KEYWORDS

\* C9: a classified failure of the robust tier yields an error event whose
\* message names the error kind and whose error field is the exception text:
\* NavigationError for a browser navigation failure, ContentExtractionError
\* for a page without article container, DecoyPageError for a too-short or
\* decoy page.
C9_ClassifiedErrorsNamed ==
    pc \in { "robust_path_error", "done" } /\ robust_exc # << >> =>
        /\ LastEvent.status = "error"
        /\ LastEvent.error = robust_exc[1].msg
        /\ robust_exc[1].kind \in ScraperErrors =>
             LastEvent.message = "Scraper error: " \o robust_exc[1].kind
        /\ navigation_outcome = "PlaywrightError" =>
             /\ LastEvent.message = "Scraper error: NavigationError"
             /\ LastEvent.error = "Playwright navigation failed"
        /\ raw_html # << >> /\ ~raw_html[1].container =>
             /\ LastEvent.message = "Scraper error: ContentExtractionError"
             /\ LastEvent.error = "Could not extract content."
        /\ raw_html # << >> /\ raw_html[1].container =>
             /\ LastEvent.message = "Scraper error: DecoyPageError"
             /\ LastEvent.error \in { "Content too short. Likely a block page.",
                                      "Decoy page keyword found. Content likely blocked." }

C9_Witness ==
    /\ pc = "done"
    /\ robust_exc # << >>
    /\ raw_html # << >>
    /\ raw_html[1].markdown = << Run("a", 300), Run(" ", 1), Run("Enable JavaScript", 1) >>
    /\ LastEvent.message = "Scraper error: DecoyPageError"

\* C10: a context is never closed more often than created, and when the run
\* is exhausted a context it created has been closed by exactly one
\* context.close() call, whether the tier ended in complete or in an error.
C10_ContextClosedOnce ==
    /\ close_calls <= contexts_created
    /\ pc = "done" /\ contexts_created >= 1 =>
         /\ close_calls = 1
         /\ context # "open"

C10_Witness ==
    /\ pc = "done"
    /\ contexts_created = 1
    /\ robust_exc # << >>
    /\ robust_exc[1].kind = "PlaywrightError"
    /\ context = "closed"

\* C11: when the consumer abandons the sequence while the context of the run
\* is open, the context is eventually released, and a finalized generator
\* never leaves its context open.
C11_AbandonedContextReleased ==
    /\ [](pc = "finalized" => context # "open")
    /\ (pc = "abandoned_in_try" /\ context = "open") ~> (context # "open")

C11_Witness ==
    /\ pc = "finalized"
    /\ contexts_created = 1
    /\ context = "closed"
    /\ close_calls = 1
    /\ LastEvent.status = "complete"

\* C12 as claimed: no exception ever leaves run(), and an exhausted run has
\* ended with a terminal event.
C12_RunNeverRaises ==
    /\ ~raised
    /\ pc = "done" => IsTerminal(LastEvent)

\* C16: the article of every complete event has word_count equal to the
\* number of whitespace-separated words of its markdown and
\* reading_time_minutes = max(1, word_count / 200): 400 words give 2.0 and
\* 50 words give 1.0.
C16_WordCountAndReadingTime ==
    \A i \in 1..Len(events) :
        events[i].status = "complete" =>
            LET article == events[i].data[1] IN
            /\ article.word_count = StrSplitLen(article.markdown)
            /\ article.reading_time_minutes.den = 200
            /\ article.reading_time_minutes.num =
                   IF article.word_count >= 200 THEN article.word_count ELSE 200
            /\ article.word_count = 400 => article.reading_time_minutes = [ num |-> 400, den |-> 200 ]
            /\ article.word_count = 50 => article.reading_time_minutes = [ num |-> 200, den |-> 200 ]

C16_Witness ==
    /\ pc = "done"
    /\ LastEvent.status = "complete"
    /\ LastEvent.data[1].word_count = 50
    /\ LastEvent.data[1].markdown = << Run("Aaaa ", 49), Run("a", 10) >>
    /\ LastEvent.data[1].scraped_with = "playwright"

(***************************************************************************)
(* Properties of the metadata extraction.                                  *)
(***************************************************************************)
\* the author name a JSON-LD block offers, "" if it offers none
LdBlockAuthor(block) ==
    IF block.json \in { "invalid", "empty_list" } \/ ~AuthorDataIsTrue(block.author)
    THEN ""
    ELSE LET name == extract_author_name(block.author)
         IN  IF name = << >> THEN "" ELSE name[1]

RECURSIVE StructuredDataAuthor(_, _)
\* the author of the first JSON-LD block from position i on that offers one
StructuredDataAuthor(ld, i) ==
    IF i > Len(ld) THEN ""
    ELSE IF LdBlockAuthor(ld[i]) # "" THEN LdBlockAuthor(ld[i])
    ELSE StructuredDataAuthor(ld, i + 1)

\* some source of the document offers a date that parses
SomeDateOffered(s) ==
    \/ \E i \in 1..Len(s.ld_json) :
         /\ s.ld_json[i].json \notin { "invalid", "empty_list" }
         /\ ~parse_date(s.ld_json[i].datePublished).raises
    \/ FirstDate(s.meta_date, 1) # ""
    \/ FirstDate(s.time_tags, 1) # ""

\* C13: when both the structured data and a meta tag of the document provide
\* an author, the returned Metadata has the structured-data author and
\* author_found_by = "structured-data".
C13_StructuredDataAuthorWins ==
    /\ meta_pc = "done"
    /\ StructuredDataAuthor(soup.ld_json, 1) # ""
    /\ FirstContent(soup.meta_author, 1) # ""
    => /\ metadata.author = StructuredDataAuthor(soup.ld_json, 1)
       /\ metadata.author_found_by = "structured-data"

\* C14: once a strategy or a structured-data block has set author (or the
\* publication date), no later step changes the field's value or its
\* found-by tag.
C14_FieldsWriteOnce ==
    [][ /\ metadata.author_found_by # "None"
           => /\ metadata'.author = metadata.author
              /\ metadata'.author_found_by = metadata.author_found_by
        /\ metadata.date_found_by # "None"
           => /\ metadata'.publication_date_utc = metadata.publication_date_utc
              /\ metadata'.date_found_by = metadata.date_found_by ]_vars

\* C15: the extraction raises for no document and returns a Metadata value
\* in which a field that no source of the document resolves keeps its
\* default, author "Unknown" and publication date "N/A".
C15_ExtractionNeverFails ==
    /\ meta_pc # "raised"
    /\ meta_pc = "done" =>
         /\ DOMAIN metadata = DOMAIN Metadata
         /\ metadata.author_found_by = "None" => metadata.author = UNKNOWN_AUTHOR
         /\ metadata.date_found_by = "None" => metadata.publication_date_utc = DATE_NOT_APPLICABLE
         /\ StructuredDataAuthor(soup.ld_json, 1) = "" /\ FirstContent(soup.meta_author, 1) = ""
            => metadata.author = UNKNOWN_AUTHOR /\ metadata.author_found_by = "None"
         /\ ~SomeDateOffered(soup)
            => metadata.publication_date_utc = DATE_NOT_APPLICABLE /\ metadata.date_found_by = "None"

C15_Witness ==
    /\ meta_pc = "done"
    /\ soup.ld_json = << LdBlock("invalid", AuthorData("absent", ""), ""),
                         LdBlock("empty_list", AuthorData("absent", ""), "") >>
    /\ soup.meta_author = << "", "", "", "" >>
    /\ soup.meta_date = << "yesterday-ish", "", "", "", "", "" >>
    /\ soup.time_tags = << "", "yesterday-ish" >>
    /\ metadata = Metadata

(***************************************************************************)
(* Properties of the proxy pool.                                           *)
(***************************************************************************)
\* C17: after any sequence of refresh, validate and select operations,
\* overlapping refreshes included, the working set has at most max_proxies records.
C17_WorkingSetWithinCap == Len(working_proxies) <= max_proxies

C17_Witness ==
    /\ merged_size > max_proxies
    /\ Len(working_proxies) = max_proxies
    /\ working_list >= 1

\* C18: no operation removes an address from the known-bad set.
C18_KnownBadAppendOnly == [][failed_proxies \subseteq failed_proxies']_vars

C18_Witness ==
    \E p \in Procs :
      /\ refresh[p].phase = "validating"
      /\ \E i \in DOMAIN refresh[p].new_proxies :
           /\ refresh[p].new_proxies[i].addr \in failed_proxies
           /\ refresh[p].probe[i] = "done"
           /\ refresh[p].new_proxies[i].fail_count = 0
           /\ refresh[p].new_proxies[i].success_count = 0

\* C19: get_random_proxy never returns a proxy whose address has failed
\* validation 3 times, and no record of the working set has a known-bad address.
C19_FailedThriceNeverSelected ==
    /\ fresh_selection /\ selected # NoProxy => validation_failures[selected.addr] < 3
    /\ \A i \in DOMAIN working_proxies : working_proxies[i].addr \notin failed_proxies

\* C20: of two refresh(force=false) calls made one after the other within
\* fetch_interval, the first of which asked the sources (whatever they gave),
\* the second asks no source and returns the list object the first returned;
\* a refresh(force=true) always asks the sources.
C20_SecondCallInWindowIsCached ==
    /\ /\ pair # << >>
       /\ ~pair[1].force /\ ~pair[2].force
       /\ pair[1].fetched
       /\ pair[2].begin - pair[1].begin < fetch_interval
       => ~pair[2].fetched /\ pair[2].returned = pair[1].returned
    /\ prev_call.force => prev_call.fetched

\* C20, amended: the cooldown starts only when the first call got at least
\* one candidate; after a first call that got none on a pool never refreshed
\* the second call asks the sources again; force always asks the sources.
C20_CachedAfterCandidates ==
    /\ /\ pair # << >>
       /\ ~pair[1].force /\ ~pair[2].force
       /\ pair[1].fetched /\ pair[1].candidates >= 1
       /\ pair[2].begin - pair[1].begin < fetch_interval
       => ~pair[2].fetched /\ pair[2].returned = pair[1].returned
    /\ /\ pair # << >>
       /\ pair[1].fetched /\ pair[1].candidates = 0
       /\ last_fetch = << >>
       => pair[2].fetched
    /\ prev_call.force => prev_call.fetched

C20_Witness ==
    /\ pair # << >>
    /\ ~pair[1].force /\ ~pair[2].force
    /\ pair[1].fetched /\ pair[1].candidates = 2
    /\ pair[2].begin = pair[1].begin + fetch_interval \div 2
    /\ ~pair[2].fetched
    /\ pair[2].returned = 1 /\ pair[1].returned = 1
    /\ Len(working_proxies) = 1

\* some three requests in a row failed
ThreeConsecutiveFailures ==
    \E k \in 1..(Len(probe_log) - 2) :
        \A j \in k..(k + 2) : probe_log[j].outcome # "ok"

\* C21: every validation request that does not succeed (an exception, a
\* timeout or a response other than 200) increments the record's fail_count
\* and leaves is_working false; every request that succeeds sets is_working,
\* stores the latency and increments success_count.
C21_ProbeUpdatesRecord ==
    [][ Len(probe_log') = Len(probe_log) + 1 =>
          LET probe == probe_log'[Len(probe_log')]
          IN  IF probe.outcome = "ok"
              THEN /\ selected'.is_working
                   /\ selected'.speed = probe.speed
                   /\ selected'.success_count = selected.success_count + 1
              ELSE /\ selected'.fail_count = selected.fail_count + 1
                   /\ ~selected'.is_working ]_vars

\* C22: an ip:port is in the known-bad set exactly when its record has had
\* three failed validations in a row; a success in between restarts the count.
C22_BlacklistedAtThreeConsecutive ==
    \A addr \in Addrs :
        addr \in failed_proxies <=> (selected.addr = addr /\ ThreeConsecutiveFailures)

\* the task whose refresh_proxies call stores a new working set in this step
Commits(p) == refresh[p].phase = "validating" /\ refresh'[p].phase = "idle"

\* the records of a list
Records(proxies) == { proxies[i] : i \in DOMAIN proxies }

\* C23: while a batch is validated no more than max_concurrent probes are in
\* flight, whatever the batch and the order in which the probes end;
\* validate_proxies returns only when every candidate has been handled, and
\* returns exactly the candidates whose probe succeeded.
C23_ProbesWithinLimit ==
    /\ [](\A p \in Procs : Cardinality(InFlight(p)) <= max_concurrent)
    /\ [][ \A p \in Procs :
             Commits(p) =>
               /\ \A i \in DOMAIN refresh[p].probe : refresh[p].probe[i] = "done"
               /\ Records(refresh[p].working_new) =
                      { r \in Records(refresh[p].new_proxies) : r.is_working }
               /\ Len(refresh[p].working_new) = Cardinality(Records(refresh[p].working_new)) ]_vars

\* the semaphore is full while a candidate of the batch still waits
C23_Witness ==
    \E p \in Procs :
        /\ Cardinality(InFlight(p)) = max_concurrent
        /\ \E i \in DOMAIN refresh[p].probe : refresh[p].probe[i] = "waiting"

\* p ranks strictly before q: more successes, or as many and a lower latency
RanksBefore(p, q) ==
    \/ p.success_count > q.success_count
    \/ p.success_count = q.success_count /\ p.speed < q.speed

\* no two records of the list have the same ip:port
NoDuplicates(proxies) ==
    \A i, j \in DOMAIN proxies : i # j => proxies[i].addr # proxies[j].addr

\* the list is in rank order
Ranked(proxies) ==
    \A i, j \in DOMAIN proxies : i < j => ~RanksBefore(proxies[j], proxies[i])

\* the previous working set together with the newly validated candidates,
\* one record per ip:port, the previous record standing for its address
UnionByAddress(working, working_new) ==
    Records(working) \cup
      { r \in Records(working_new) : \A q \in Records(working) : q.addr # r.addr }

\* C24: a refresh that fetched candidates leaves a working set without two
\* records of one ip:port, ordered by success count descending and latency
\* ascending, made of the top max_proxies records of the union of the
\* previous working set and the newly validated candidates.
C24_RankedTopOfUnion ==
    [][ \A p \in Procs :
          Commits(p) =>
            LET union == UnionByAddress(working_proxies, refresh[p].working_new)
                kept == Records(working_proxies')
            IN  /\ NoDuplicates(working_proxies')
                /\ Ranked(working_proxies')
                /\ kept \subseteq union
                /\ Len(working_proxies') =
                      IF Cardinality(union) < max_proxies THEN Cardinality(union) ELSE max_proxies
                /\ \A out \in union \ kept, in \in kept : ~RanksBefore(out, in) ]_vars

\* a second refresh has cut the merged list, and the record it kept has
\* more successes than a record of a fresh candidate has
C24_Witness ==
    /\ working_list = 2
    /\ merged_size > Len(working_proxies)
    /\ Len(working_proxies) >= 1
    /\ working_proxies[1].success_count >= 2

\* the identities of the records of a list, in order
Ids(proxies) == [ i \in DOMAIN proxies |-> proxies[i].id ]

\* C25: the working set a reader can see changes only in the one step that
\* ends a refresh, from the complete previous list to the complete new one
\* (deduplicated, ranked, within the cap); no step shows a list in between.
C25_WorkingSetReplacedAtomically ==
    [][ Ids(working_proxies') # Ids(working_proxies) =>
          /\ \E p \in Procs : Commits(p)
          /\ NoDuplicates(working_proxies')
          /\ Ranked(working_proxies')
          /\ Len(working_proxies') <= max_proxies ]_vars

\* get_random_proxy has just read a non-empty working set while a refresh
\* that will replace it is validating its batch
C25_Witness ==
    /\ fresh_selection
    /\ selected # NoProxy
    /\ \E p \in Procs :
          /\ refresh[p].phase = "validating"
          /\ refresh[p].working_new # << >>

\* success counts a record can have
SuccessCounts == 0..MaxDirectValidations

\* C26: get_random_proxy never fails: on an empty working set it returns None,
\* otherwise a record of the current working set; every record has the
\* positive weight success_count + 1, a record without successes included.
C26_SelectionNeverFails ==
    /\ [](selected # ChoicesError)
    /\ [](\A i \in DOMAIN working_proxies : weights(working_proxies)[i] > 0)
    /\ [](\A c \in SuccessCounts :
             weights(<< [ ProxyInfo(1, "a") EXCEPT !.success_count = c ] >>)[1] = c + 1)
    /\ [][ (fresh_selection' /\ selected' # selected) =>
             IF working_proxies = << >> THEN selected' = NoProxy
             ELSE selected' \in Records(working_proxies) ]_vars

\* the record given out is the last of a working set of two
C26_Witness ==
    /\ fresh_selection
    /\ Len(working_proxies) = 2
    /\ selected = working_proxies[2]

\* the sources that did not raise
Succeeded == { k \in DOMAIN sources : ~sources[k].raises }

\* the ip:port keys the sources that did not raise gave
SucceededAddrs ==
    UNION { { sources[k].proxies[i] : i \in DOMAIN sources[k].proxies } : k \in Succeeded }

\* source k gave addr, and no source asked before k that did not raise gave it
FirstGivenBy(addr, k) ==
    /\ k \in Succeeded
    /\ \E i \in DOMAIN sources[k].proxies : sources[k].proxies[i] = addr
    /\ \A j \in Succeeded :
          j < k => \A i \in DOMAIN sources[j].proxies : sources[j].proxies[i] # addr

\* the records of the successful sources before source k
GivenBefore(k) == Len(extend_all(SubSeq(sources, 1, k - 1), 1))

\* C27: whichever sources raise, fetch_proxies_from_sources raises nothing
\* and returns the records of the sources that did not raise, one record
\* per ip:port, the first occurrence; with every source raising it returns
\* the empty list.
C27_SourceFailuresIsolated ==
    fetch_result # << >> =>
        LET result == fetch_result[1]
        IN  /\ ~result.raised
            /\ { result.proxies[i].addr : i \in DOMAIN result.proxies } = SucceededAddrs
            /\ NoDuplicates(result.proxies)
            /\ \A i \in DOMAIN result.proxies :
                   \E k \in Succeeded :
                       /\ FirstGivenBy(result.proxies[i].addr, k)
                       /\ result.proxies[i].id > GivenBefore(k)
                       /\ result.proxies[i].id <= GivenBefore(k) + Len(sources[k].proxies)
                       /\ \A j \in 1..(result.proxies[i].id - GivenBefore(k) - 1) :
                              sources[k].proxies[j] # result.proxies[i].addr
            /\ \A i, j \in DOMAIN result.proxies :
                   i < j => result.proxies[i].id < result.proxies[j].id
            /\ (Succeeded = {} => result.proxies = << >>)

\* a source raised, another gave an ip:port twice and a later one gave it
\* again, and the call has returned
C27_Witness ==
    /\ fetch_result # << >>
    /\ sources[1].raises
    /\ sources[2].raises = FALSE /\ sources[2].proxies = << "a", "a" >>
    /\ sources[3].raises = FALSE /\ sources[3].proxies = << "b", "a" >>
    /\ Len(fetch_result[1].proxies) = 2

\* the configuration rotates over an explicit list
ExplicitList(cfg) ==
    /\ cfg.helper_proxy_enabled
    /\ cfg.rotation = "dict"
    /\ cfg.rotation_enabled
    /\ cfg.proxy_list # << >>

\* the set-ups made with a proxy since the list was enabled
Rotated == Cardinality({ k \in DOMAIN setups : setups[k] # "None" })

TransportFailure(resp) ==
    \/ resp.kind = "RequestException"
    \/ resp.kind = "html" /\ resp.msg # "200"

\* C29: with retry_attempts = N >= 1 the fast path makes at most N GETs; a
\* transport failure (connection error, timeout, status outside 2xx) on
\* attempt k < N is followed by a wait and attempt k+1, on attempt N by
\* NavigationError without a wait; any other failure ends the fast path at
\* once, and no GET follows the end of the fast path.
C29_TransportFailuresRetried ==
    /\ [][ gets' = gets + 1 =>
             LET resp == response'[1] IN
             /\ gets' <= retry_attempts
             /\ (TransportFailure(resp) /\ gets' < retry_attempts) =>
                   /\ sleeps' = sleeps + 1
                   /\ attempt' = attempt + 1
                   /\ pc' = "fast_path"
             /\ (TransportFailure(resp) /\ gets' = retry_attempts) =>
                   /\ sleeps' = sleeps
                   /\ fast_outcome' = "raised"
                   /\ events'[Len(events')].error = "Requests failed to fetch URL: " \o resp.msg
             /\ (~TransportFailure(resp) /\ fast_outcome' # "returned") =>
                   /\ sleeps' = sleeps
                   /\ fast_outcome' = "raised" ]_vars
    /\ [][ fast_outcome # "pending" => gets' = gets ]_vars

\* an event as the claim names it
Triple(event) == << event.status, event.stage, event.current_stage >>

\* the events of a run whose fast path fails and whose robust tier succeeds
EscalatedRun ==
    << << "progress", "initialization", 1 >>,
       << "progress", "fast_path", 2 >>,
       << "progress", "fast_path", 2 >>,
       << "progress", "robust_path", 3 >>,
       << "progress", "navigation", 4 >>,
       << "progress", "content_extraction", 5 >>,
       << "progress", "metadata_extraction", 6 >>,
       << "complete", "completion", 6 >> >>

\* C30: once the fast path has failed the events are the first events of
\* initialization/1, fast_path/2, fast_path/2 (the note, with the error
\* text), robust_path/3, navigation/4, content_extraction/5,
\* metadata_extraction/6, complete/6 - all eight when the robust tier
\* succeeds - or such a beginning followed by one error event that carries
\* the current_stage of the event before it; no current_stage exceeds 6.
C30_EscalatedEventSequence ==
    /\ \A i \in DOMAIN events : events[i].current_stage <= total_stages
    /\ fast_outcome = "raised" =>
          /\ Len(events) >= 3
          /\ events[3].error # "None"
          /\ \A i \in DOMAIN events :
                IF events[i].status = "error"
                THEN /\ i = Len(events)
                     /\ i >= 4
                     /\ events[i].current_stage = events[i - 1].current_stage
                ELSE /\ i <= Len(EscalatedRun)
                     /\ Triple(events[i]) = EscalatedRun[i]
          /\ (pc = "done" /\ ~raised /\ LastEvent.status # "error") =>
                Len(events) = Len(EscalatedRun)

\* the fast path failed and the robust tier has delivered the article
C30_Witness ==
    /\ pc = "done"
    /\ fast_outcome = "raised"
    /\ Len(events) = 8
    /\ LastEvent.status = "complete"

(***************************************************************************)
(* Metadata extraction: which JSON-LD block is used, unparseable dates.    *)
(***************************************************************************)
RECURSIVE FirstParseable(_, _)
\* the position, from i on, of the first JSON-LD block that json.loads and
\* the list/graph unwrapping accept; 0 if there is none
FirstParseable(ld, i) ==
    IF i > Len(ld) THEN 0
    ELSE IF ld[i].json \notin { "invalid", "empty_list" } THEN i
    ELSE FirstParseable(ld, i + 1)

\* C31: when the structured-data strategy has ended, the fields it has set
\* are those of the first parseable JSON-LD block alone: a later block has
\* contributed no author and no publication date, also when the first
\* parseable block lacks the field.
C31_OnlyFirstParseableBlock ==
    meta_pc = "tags" =>
        LET k == FirstParseable(soup.ld_json, 1)
        IN  metadata = IF k = 0 THEN Metadata
                       ELSE json_ld_block(soup.ld_json[k], Metadata).metadata

\* the date candidates of a document in the order the strategies try them:
\* datePublished of the JSON-LD blocks that load, the meta selectors, the
\* time tags
DateCandidates(s) ==
    [ i \in 1..Len(s.ld_json) |->
        IF s.ld_json[i].json \in { "invalid", "empty_list" } THEN ""
        ELSE s.ld_json[i].datePublished ]
    \o s.meta_date \o s.time_tags

\* the found-by tag of the strategy that candidate k belongs to
CandidateStrategy(s, k) ==
    IF k <= Len(s.ld_json) THEN "json-ld"
    ELSE IF k <= Len(s.ld_json) + Len(s.meta_date) THEN "meta-tag"
    ELSE "time-tag"

RECURSIVE FirstParsing(_, _)
\* the position, from i on, of the first candidate that parse_date accepts; 0
\* if there is none
FirstParsing(c, i) ==
    IF i > Len(c) THEN 0
    ELSE IF c[i] # "" /\ ~parse_date(c[i]).raises THEN i
    ELSE FirstParsing(c, i + 1)

\* the JSON-LD block under the loop offers a date that parse_date rejects,
\* and the date is still wanted
UnparseableDateInBlock ==
    /\ meta_pc = "json_ld"
    /\ ld_index <= Len(soup.ld_json)
    /\ soup.ld_json[ld_index].json \notin { "invalid", "empty_list" }
    /\ soup.ld_json[ld_index].datePublished # ""
    /\ parse_date(soup.ld_json[ld_index].datePublished).raises
    /\ metadata.publication_date_utc = DATE_NOT_APPLICABLE

\* C32: a date that does not parse never fails the extraction and never
\* resolves the date: the returned date is that of the first candidate, in
\* the order JSON-LD blocks, meta selectors, time tags, that parses, tagged
\* with its strategy, or the default if none parses; the JSON-LD block with
\* the bad date leaves the date unset, the loop goes on to the next block,
\* and the author that block offers is kept.
C32_UnparseableDateSkipped ==
    /\ [](meta_pc # "raised")
    /\ [](meta_pc = "done" =>
            LET c == DateCandidates(soup)
                k == FirstParsing(c, 1)
            IN  IF k = 0
                THEN /\ metadata.publication_date_utc = DATE_NOT_APPLICABLE
                     /\ metadata.date_found_by = "None"
                ELSE /\ metadata.publication_date_utc = parse_date(c[k]).isoformat
                     /\ metadata.date_found_by = CandidateStrategy(soup, k))
    /\ [][ UnparseableDateInBlock =>
             /\ meta_pc' = "json_ld"
             /\ ld_index' = ld_index + 1
             /\ metadata'.publication_date_utc = DATE_NOT_APPLICABLE
             /\ metadata'.date_found_by = "None"
             /\ ( /\ metadata.author = UNKNOWN_AUTHOR
                  /\ LdBlockAuthor(soup.ld_json[ld_index]) # "" )
                => /\ metadata'.author = LdBlockAuthor(soup.ld_json[ld_index])
                   /\ metadata'.author_found_by = "json-ld" ]_vars

\* a JSON-LD block gave the author and a date that does not parse, the first
\* meta selector gave another bad date, and the second one resolved the date
C32_Witness ==
    /\ meta_pc = "done"
    /\ Len(soup.ld_json) = 1
    /\ soup.ld_json[1].datePublished = "yesterday-ish"
    /\ metadata.author = "Alice"
    /\ metadata.author_found_by = "json-ld"
    /\ soup.meta_date[1] = "yesterday-ish"
    /\ metadata.publication_date_utc = "2024-01-02T00:00:00"
    /\ metadata.date_found_by = "meta-tag"

(***************************************************************************)
(* The pool: known-bad addresses, empty fetches, overlapping refreshes.    *)
(***************************************************************************)
\* candidate i of the batch of task p leaves the semaphore queue in this step
ValidationStarts(p, i) ==
    /\ refresh[p].phase = "validating"
    /\ i \in DOMAIN refresh[p].probe
    /\ refresh[p].probe[i] = "waiting"
    /\ refresh'[p].phase = "validating"
    /\ refresh'[p].probe[i] # "waiting"

ReturnsOnEmptyFetch(p) == refresh[p].phase = "fetching" /\ refresh'[p].phase = "idle"

\* C34: a refresh whose fetch gives no candidate returns the existing list
\* object and changes neither the working set nor the known-bad set nor
\* last_fetch, so the cooldown is as it was before the call.
C34_EmptyFetchChangesNothing ==
    [][ \A p \in Procs : ReturnsOnEmptyFetch(p) =>
          /\ prev_call'.fetched
          /\ prev_call'.candidates = 0
          /\ prev_call'.returned = working_list
          /\ UNCHANGED << working_proxies, working_list, failed_proxies, last_fetch >>
          /\ \A force \in BOOLEAN :
               cooldown_active(force, last_fetch', now') = cooldown_active(force, last_fetch, now)
      ]_vars

\* a forced refresh inside the cooldown of an earlier one got no candidate
\* and the pool is as the earlier refresh left it
C34_Witness ==
    /\ prev_call.fetched
    /\ prev_call.force
    /\ prev_call.candidates = 0
    /\ last_fetch # << >>
    /\ cooldown_active(FALSE, last_fetch, now)
    /\ working_proxies # << >>
    /\ \A p \in Procs : refresh[p].phase = "idle"

\* C35: the refresh that ends while it overlaps, or after it has overlapped,
\* another one merges into the working set as it is at that moment, the other
\* refresh's result included: every record of that set, and every candidate
\* it validated itself whose address the set does not hold yet, is in the
\* new working set unless the new set is full and the record ranks before
\* none of the records kept.
C35_OverlappingRefreshesMerge ==
    [][ \A p \in Procs : Commits(p) /\ ~refresh[p].alone =>
          \A r \in UnionByAddress(working_proxies, refresh[p].working_new) :
              \/ r \in Records(working_proxies')
              \/ /\ Len(working_proxies') = max_proxies
                 /\ \A k \in DOMAIN working_proxies' : ~RanksBefore(r, working_proxies'[k])
      ]_vars

\* both refreshes have ended and the working set holds a record of each: the
\* record of "b" has identity 3 only when its batch was fetched while both
\* records of the other batch, identities 1 and 2, were still in validation
C35_Witness ==
    /\ \A p \in Procs : refresh[p].phase = "idle"
    /\ calls_made = 2
    /\ working_list = 2
    /\ Len(working_proxies) = 2
    /\ \E i, j \in DOMAIN working_proxies :
         /\ working_proxies[i].addr = "a" /\ working_proxies[i].id = 2
         /\ working_proxies[j].addr = "b" /\ working_proxies[j].id = 3

(***************************************************************************)
(* _navigate_and_consent: goto, the consent loop, the settle delay, the    *)
(* scroll and the wait for the network to go idle.                         *)
(***************************************************************************)
\* self.config['cookie_consent_selectors']
cookie_consent_selectors ==
    << "button#didomi-notice-agree-button", "button[data-testid=uc-accept-all-button]",
       "button:has-text(Accept all)", ".accept-cookies", "#accept-cookies" >>

\* what one pass of the loop body can meet: is_visible gives False, or
\* is_visible, the delay before the click or the click raises PlaywrightError,
\* or the click succeeds
SelectorOutcomes ==
    { "not_visible", "is_visible_raises", "wait_raises", "click_raises", "clicked" }

\* a Playwright call outside the loop returns or raises PlaywrightError
PageOutcomes == { "ok", "PlaywrightError" }

core_vars == << run_vars, pool_vars, meta_vars >>

InitConsent ==
    /\ nav_pc = "goto"
    /\ selector_index = 0
    /\ consent_given = FALSE
    /\ consent_log = << >>
    /\ settle_waits = 0
    /\ nav_error = "None"
    /\ RouteIdle
    /\ SseIdle
    /\ EndpointIdle
    /\ LimiterIdle
    /\ RunIdle
    /\ PoolFresh
    /\ PoolDefaults
    /\ UnitsIdle
    /\ MetaIdle

\* the outer except: PlaywrightError becomes NavigationError
RaiseNavigationError ==
    /\ nav_pc' = "raised"
    /\ nav_error' = "NavigationError"

\* page.goto, the two waits and the mouse move before the loop
GotoAndWait(outcome) ==
    /\ nav_pc = "goto"
    /\ IF outcome = "ok"
       THEN /\ nav_pc' = "consent"
            /\ selector_index' = 1
            /\ UNCHANGED nav_error
       ELSE /\ RaiseNavigationError
            /\ UNCHANGED selector_index
    /\ UNCHANGED << consent_given, consent_log, settle_waits, core_vars, beside_consent >>

\* mutant: the loop goes on after a click
TrySelector_NoBreak(outcome) ==
    /\ nav_pc = "consent"
    /\ selector_index <= Len(cookie_consent_selectors)
    /\ consent_log' = Append(consent_log, [ selector |-> cookie_consent_selectors[selector_index],
                                            outcome |-> outcome ])
    /\ consent_given' = (consent_given \/ outcome = "clicked")
    /\ selector_index' = selector_index + 1
    /\ UNCHANGED << nav_pc, settle_waits, nav_error, core_vars, beside_consent >>

\* one pass of the loop over the selectors: a click that succeeds sets
\* consent_given and breaks, everything else goes on to the next selector
TrySelector(outcome) ==
    /\ nav_pc = "consent"
    /\ selector_index <= Len(cookie_consent_selectors)
    /\ consent_log' = Append(consent_log, [ selector |-> cookie_consent_selectors[selector_index],
                                            outcome |-> outcome ])
    /\ IF outcome = "clicked"
       THEN /\ consent_given' = TRUE
            /\ nav_pc' = "settle"
            /\ UNCHANGED selector_index
       ELSE /\ selector_index' = selector_index + 1
            /\ UNCHANGED << consent_given, nav_pc >>
    /\ UNCHANGED << settle_waits, nav_error, core_vars, beside_consent >>

\* the loop has tried every selector
ConsentLoopEnds ==
    /\ nav_pc = "consent"
    /\ selector_index > Len(cookie_consent_selectors)
    /\ nav_pc' = "settle"
    /\ UNCHANGED << selector_index, consent_given, consent_log, settle_waits, nav_error,
                    core_vars, beside_consent >>

\* if consent_given: await page.wait_for_timeout(3000)
SettleAfterConsent(outcome) ==
    /\ nav_pc = "settle"
    /\ IF consent_given
       THEN /\ settle_waits' = settle_waits + 1
            /\ IF outcome = "ok"
               THEN nav_pc' = "scroll" /\ UNCHANGED nav_error
               ELSE RaiseNavigationError
       ELSE /\ outcome = "ok"
            /\ nav_pc' = "scroll"
            /\ UNCHANGED << settle_waits, nav_error >>
    /\ UNCHANGED << selector_index, consent_given, consent_log, core_vars, beside_consent >>

\* the mouse wheel, the wait after it and wait_for_load_state('networkidle')
ScrollAndWaitForIdle(outcome) ==
    /\ nav_pc = "scroll"
    /\ IF outcome = "ok"
       THEN nav_pc' = "returned" /\ UNCHANGED nav_error
       ELSE RaiseNavigationError
    /\ UNCHANGED << selector_index, consent_given, consent_log, settle_waits, core_vars, beside_consent >>

NextConsent ==
    \/ \E outcome \in PageOutcomes : GotoAndWait(outcome)
    \/ \E outcome \in SelectorOutcomes : TrySelector(outcome)
    \/ ConsentLoopEnds
    \/ \E outcome \in PageOutcomes : SettleAfterConsent(outcome)
    \/ \E outcome \in PageOutcomes : ScrollAndWaitForIdle(outcome)

SpecConsent == InitConsent /\ [][NextConsent]_vars

\* the passes of the loop that ended in a click
Clicks == { k \in DOMAIN consent_log : consent_log[k].outcome = "clicked" }

\* C36: the selectors are tried in the configured order; at most one click
\* succeeds and it is the last thing the loop tries; a selector that is not
\* visible or whose look-up, delay or click raises is followed by the next
\* one, so a loop that ends without a click has tried them all; the settle
\* delay is made exactly when a click succeeded; and the loop itself never
\* raises, with or without a consent button.
C36_ConsentLoop ==
    /\ [](/\ Len(consent_log) <= Len(cookie_consent_selectors)
          /\ \A k \in DOMAIN consent_log : consent_log[k].selector = cookie_consent_selectors[k]
          /\ Cardinality(Clicks) <= 1
          /\ Clicks \subseteq { Len(consent_log) }
          /\ consent_given <=> Clicks # {}
          /\ nav_pc \in { "settle", "scroll", "returned", "raised" } /\ consent_log # << >>
             => Clicks # {} \/ Len(consent_log) = Len(cookie_consent_selectors)
          /\ nav_pc \in { "scroll", "returned" } => settle_waits = Cardinality(Clicks)
          /\ settle_waits > 0 => Clicks # {})
    /\ [][ nav_pc = "consent" => nav_pc' \in { "consent", "settle" } /\ nav_error' = "None" ]_vars

\* two selectors were skipped, one not visible and one whose click failed,
\* the third was clicked, the page was given time to settle and the
\* navigation returned
C36_Witness ==
    /\ nav_pc = "returned"
    /\ Len(consent_log) = 3
    /\ consent_log[1].outcome = "not_visible"
    /\ consent_log[2].outcome = "click_raises"
    /\ consent_log[3].outcome = "clicked"
    /\ settle_waits = 1

(***************************************************************************)
(* block_requests, the route handler of a robust-tier context.             *)
(***************************************************************************)
MaxIntercepted == 2     \* bound: requests intercepted in one context

\* self.config["blocked_resource_types"]
blocked_resource_types == { "image", "stylesheet", "font", "media" }

\* self.config["blocked_domains"]
blocked_domains ==
    { "googletagmanager.com", "google-analytics.com", "adservice.google.com",
      "chartbeat.com", "facebook.com", "twitter.com", "linkedin.com" }

\* a URL as the pieces its text is made of: the labels of the host in front
\* of the registered domain, the registered domain, the segments of the path
Url(subdomain, domain, path) == [ subdomain |-> subdomain, domain |-> domain, path |-> path ]

\* the article the scraper was asked for, whose slug names a social network
ArticleUrl == Url("www", "example.com", << "news", "twitter.com-outage" >>)

RequestUrls ==
    { ArticleUrl,
      Url("www", "example.com", << "a" >>),
      Url("cdn", "example.com", << "static", "app" >>),
      Url("www", "google-analytics.com", << "collect" >>),
      Url("connect", "facebook.com", << "sdk" >>),
      Url("www", "example.com", << "share", "facebook.com" >>) }

ResourceTypes == { "document", "script", "xhr", "image", "font" }

Requests == [ resource_type : ResourceTypes, url : RequestUrls ]

\* domain in route.request.url: the text of the domain occurs somewhere in
\* the text of the URL, in the host or in a segment of the path
InText(domain, u) ==
    \/ u.domain = domain
    \/ \E k \in DOMAIN u.path :
         u.path[k] \in { domain, domain \o "-outage" }

\* block_requests: the calls it makes on the route
block_requests(request) ==
    IF \/ request.resource_type \in blocked_resource_types
       \/ \E domain \in blocked_domains : InText(domain, request.url)
    THEN << "abort" >>
    ELSE << "continue_" >>

InitRoutes ==
    /\ routes = << >>
    /\ ConsentIdle
    /\ SseIdle
    /\ EndpointIdle
    /\ LimiterIdle
    /\ RunIdle
    /\ PoolFresh
    /\ PoolDefaults
    /\ UnitsIdle
    /\ MetaIdle

\* the context intercepts a request and awaits the handler
InterceptRequest(request) ==
    /\ Len(routes) < MaxIntercepted
    /\ routes' = Append(routes, [ request |-> request, calls |-> block_requests(request) ])
    /\ UNCHANGED << core_vars, beside_routes >>

NextRoutes == \E request \in Requests : InterceptRequest(request)

SpecRoutes == InitRoutes /\ [][NextRoutes]_vars

\* the request goes to a host of a configured tracker domain
AddressedToTracker(request) == request.url.domain \in blocked_domains

\* C37: every route handled has had exactly one call, abort or continue_;
\* abort exactly when the resource type is blocked or the request goes to a
\* tracker domain; the navigation request for the article is continued.
C37_AbortedExactlyWhenBlocked ==
    \A k \in DOMAIN routes :
        LET request == routes[k].request
        IN  /\ Len(routes[k].calls) = 1
            /\ routes[k].calls[1] \in { "abort", "continue_" }
            /\ routes[k].calls[1] = "abort"
               <=> \/ request.resource_type \in blocked_resource_types
                   \/ AddressedToTracker(request)
            /\ request = [ resource_type |-> "document", url |-> ArticleUrl ]
               => routes[k].calls = << "continue_" >>

(***************************************************************************)
(* generate_sse_events: the scraper as a context manager, one SSE event of *)
(* two chunks per update, the except branch.                               *)
(***************************************************************************)
MaxProgress == 4     \* bound: progress events of a workflow before its terminal event

\* a WorkflowOutput as generate_sse_events looks at it; complete carries the article
WorkflowOutput(status) ==
    [ type |-> "WorkflowOutput", status |-> status, data |-> (status = "complete") ]

\* what scraper.run yields: progress events, the first for the
\* initialization, then one terminal event
Workflows ==
    { [ i \in 1..(k + 1) |-> IF i <= k THEN WorkflowOutput("progress") ELSE WorkflowOutput(last) ] :
        k \in 1..MaxProgress, last \in { "complete", "error" } }

\* __aenter__ and __aexit__ return or raise
ScraperOutcomes == { "ok", "raises" }

\* the strings the generator yields
EventLine(status) == [ type |-> "str", text |-> "event: " \o status ]
DataLine(status) == [ type |-> "str", text |-> "data: status " \o status ]

\* a suspension point of the generator together with the chunk yielded there
Suspended(at, index, chunk) == [ pc |-> at, index |-> index, chunk |-> chunk ]

\* the except branch up to its first yield
ExceptBranch(index) == Suspended("error_event", index, << EventLine("error") >>)

\* the async with block is left without an exception: __aexit__ closes the
\* browser; what it raises is raised inside the try
LeaveScraper(index, exit_outcome) ==
    IF exit_outcome = "ok"
    THEN Suspended("done", index, << >>)
    ELSE ExceptBranch(index)

\* the async for asks scraper.run for update number index
NextUpdate(wf, index, exit_outcome) ==
    IF index > Len(wf)
    THEN LeaveScraper(index, exit_outcome)
    ELSE Suspended("event", index, << EventLine(wf[index].status) >>)

\* one __anext__ of generate_sse_events: from where it is suspended to its
\* next yield or to its end
generate_sse_events(at, index, wf, enter_outcome, exit_outcome) ==
    CASE at = "start" ->
           IF enter_outcome = "ok"
           THEN NextUpdate(wf, 1, exit_outcome)
           ELSE ExceptBranch(0)
      [] at = "event" -> Suspended("data", index, << DataLine(wf[index].status) >>)
      [] at = "data" ->
           IF wf[index].status \in { "complete", "error" }
           THEN LeaveScraper(index, exit_outcome)
           ELSE NextUpdate(wf, index + 1, exit_outcome)
      [] at = "error_event" -> Suspended("error_data", index, << DataLine("error") >>)
      [] OTHER -> Suspended("done", index, << >>)

InitSse ==
    /\ workflow \in Workflows
    /\ sse_pc = "start"
    /\ sse_index = 0
    /\ sse_chunks = << >>
    /\ ConsentIdle
    /\ RouteIdle
    /\ EndpointIdle
    /\ LimiterIdle
    /\ RunIdle
    /\ PoolFresh
    /\ PoolDefaults
    /\ UnitsIdle
    /\ MetaIdle

\* the response iterates the generator
ResumeSseEvents(enter_outcome, exit_outcome) ==
    /\ sse_pc \notin { "idle", "done" }
    /\ LET next == generate_sse_events(sse_pc, sse_index, workflow, enter_outcome, exit_outcome)
       IN  /\ sse_pc' = next.pc
           /\ sse_index' = next.index
           /\ sse_chunks' = sse_chunks \o next.chunk
    /\ UNCHANGED << workflow, core_vars, beside_sse >>

NextSse == \E enter_outcome, exit_outcome \in ScraperOutcomes :
               ResumeSseEvents(enter_outcome, exit_outcome)

SpecSse == InitSse /\ [][NextSse]_vars

\* the chunks that open a terminal event
TerminalLines(chunks) ==
    { i \in DOMAIN chunks : chunks[i] \in { EventLine("complete"), EventLine("error") } }

\* C38: the stream of one request holds at most one terminal event, and
\* after its event line comes its data line and nothing else, whatever the
\* workflow does and however __aenter__ and __aexit__ end.
C38_AtMostOneTerminalEvent ==
    /\ Cardinality(TerminalLines(sse_chunks)) <= 1
    /\ \A i \in TerminalLines(sse_chunks) : Len(sse_chunks) <= i + 1

(***************************************************************************)
(* RateLimiter.is_allowed over the table rate_limit_log.                   *)
(***************************************************************************)
MaxQuota == 2        \* bound: max_requests of the limiter
MaxWindow == 2       \* bound: window_seconds of the limiter
MaxClock == 3        \* bound: seconds the clock advances
MaxCalls == 4        \* bound: calls of is_allowed

Users == { "1", "2" }    \* str(current_user['id'])

\* the rows of a user
RowsOf(log, user_id) == SelectSeq(log, LAMBDA row : row.user_id = user_id)

\* mutant: the request is logged before the count is compared
is_allowed_LogsDenied(log, user_id, t) ==
    LET kept == SelectSeq(log, LAMBDA row :
                    ~(row.user_id = user_id /\ row.timestamp < t - window_seconds))
    IN  [ log |-> Append(kept, [ user_id |-> user_id, timestamp |-> t ]),
          result |-> Len(RowsOf(kept, user_id)) < max_requests ]

\* is_allowed at time t: DELETE the user's rows older than the window, COUNT
\* the user's rows, refuse at max_requests, else INSERT a row; commit
is_allowed(log, user_id, t) ==
    LET window_start == t - window_seconds
        kept == SelectSeq(log, LAMBDA row :
                    ~(row.user_id = user_id /\ row.timestamp < window_start))
        request_count == Len(RowsOf(kept, user_id))
    IN  IF request_count >= max_requests
        THEN [ log |-> kept, result |-> FALSE ]
        ELSE [ log |-> Append(kept, [ user_id |-> user_id, timestamp |-> t ]),
               result |-> TRUE ]

InitLimiter ==
    /\ rate_limit_log = << >>
    /\ utc_now = 0
    /\ max_requests \in 1..MaxQuota
    /\ window_seconds \in 1..MaxWindow
    /\ verdicts = << >>
    /\ ConsentIdle
    /\ RouteIdle
    /\ SseIdle
    /\ EndpointIdle
    /\ RunIdle
    /\ PoolFresh
    /\ PoolDefaults
    /\ UnitsIdle
    /\ MetaIdle

\* a second passes
TickUtc ==
    /\ utc_now < MaxClock
    /\ utc_now' = utc_now + 1
    /\ UNCHANGED << rate_limit_log, max_requests, window_seconds, verdicts, core_vars,
                    beside_limiter >>

\* a request of the user reaches the limiter
IsAllowed(user_id) ==
    /\ Len(verdicts) < MaxCalls
    /\ LET call == is_allowed(rate_limit_log, user_id, utc_now)
       IN  /\ rate_limit_log' = call.log
           /\ verdicts' = Append(verdicts, [ user_id |-> user_id, time |-> utc_now,
                                             allowed |-> call.result ])
    /\ UNCHANGED << utc_now, max_requests, window_seconds, core_vars, beside_limiter >>

NextLimiter ==
    \/ TickUtc
    \/ \E user_id \in Users : IsAllowed(user_id)

SpecLimiter == InitLimiter /\ [][NextLimiter]_vars

\* the calls of the user that were allowed at a time from t0 to t1
AllowedIn(user_id, t0, t1) ==
    { i \in DOMAIN verdicts : /\ verdicts[i].user_id = user_id
                              /\ verdicts[i].allowed
                              /\ t0 <= verdicts[i].time /\ verdicts[i].time <= t1 }

\* C40: in any span of window_seconds a user is allowed at most max_requests
\* calls; a call is allowed exactly when the user's own rows inside the
\* window are fewer than max_requests; a denied call adds no row; and a call
\* leaves the rows of every other user as they were.
C40_QuotaPerUserAndWindow ==
    /\ [](\A user_id \in Users : \A t0 \in 0..MaxClock :
            Cardinality(AllowedIn(user_id, t0, t0 + window_seconds)) <= max_requests)
    /\ [][ Len(verdicts') = Len(verdicts) + 1 =>
             LET call == verdicts'[Len(verdicts')]
                 mine == RowsOf(rate_limit_log, call.user_id)
                 recent == SelectSeq(mine, LAMBDA row : row.timestamp >= call.time - window_seconds)
             IN  /\ call.allowed <=> Len(recent) < max_requests
                 /\ RowsOf(rate_limit_log', call.user_id) =
                      IF call.allowed
                      THEN Append(recent, [ user_id |-> call.user_id, timestamp |-> call.time ])
                      ELSE recent
                 /\ \A other \in Users \ { call.user_id } :
                      RowsOf(rate_limit_log', other) = RowsOf(rate_limit_log, other)
         ]_vars

\* a user who had used the quota was denied while another user was allowed
\* at the same second, and was allowed again once the window had passed
C40_Witness ==
    \E i, j, k \in DOMAIN verdicts :
        /\ i < j /\ j < k
        /\ verdicts[i].user_id = "1" /\ ~verdicts[i].allowed
        /\ verdicts[j].user_id = "2" /\ verdicts[j].allowed
        /\ verdicts[j].time = verdicts[i].time
        /\ verdicts[k].user_id = "1" /\ verdicts[k].allowed
        /\ verdicts[k].time > verdicts[i].time

(***************************************************************************)
(* scrape_stream: the limiter, then sse_and_save_generator over            *)
(* generate_sse_events, then the row for the history.                      *)
(***************************************************************************)
MaxStreamRequests == 2   \* bound: requests that reach scrape_stream

\* update.status as Python evaluates it: the attribute of a WorkflowOutput,
\* AttributeError on a str
attr_status(update) ==
    IF update.type = "WorkflowOutput"
    THEN [ raises |-> FALSE, value |-> update.status ]
    ELSE [ raises |-> TRUE, value |-> "AttributeError" ]

InitEndpoint ==
    /\ EndpointIdle
    /\ SseIdle
    /\ rate_limit_log = << >>
    /\ utc_now = 0
    /\ max_requests \in 1..MaxQuota
    /\ window_seconds = DefaultWindowSeconds
    /\ verdicts = << >>
    /\ ConsentIdle
    /\ RouteIdle
    /\ RunIdle
    /\ PoolFresh
    /\ PoolDefaults
    /\ UnitsIdle
    /\ MetaIdle

\* scrape_stream up to its return: 429 when the limiter refuses, else a
\* StreamingResponse over a new sse_and_save_generator
ScrapeStream(user_id, wf) ==
    /\ save_pc \in { "idle", "finished", "raised" }
    /\ Len(http_log) < MaxStreamRequests
    /\ LET call == is_allowed(rate_limit_log, user_id, utc_now)
       IN  /\ rate_limit_log' = call.log
           /\ verdicts' = Append(verdicts, [ user_id |-> user_id, time |-> utc_now,
                                             allowed |-> call.result ])
           /\ IF call.result
              THEN /\ http_log' = Append(http_log, [ user_id |-> user_id, status_code |-> 200 ])
                   /\ current_user' = user_id
                   /\ workflow' = wf
                   /\ sse_pc' = "start"
                   /\ sse_index' = 0
                   /\ sse_chunks' = << >>
                   /\ save_pc' = "start"
                   /\ delivered' = << >>
                   /\ final_data' = << >>
              ELSE /\ http_log' = Append(http_log, [ user_id |-> user_id, status_code |-> 429 ])
                   /\ UNCHANGED << current_user, workflow, sse_pc, sse_index, sse_chunks,
                                   save_pc, delivered, final_data >>
    /\ UNCHANGED << scraped_articles, utc_now, max_requests, window_seconds, core_vars,
                    consent_vars, route_vars >>

\* the response asks sse_and_save_generator for its next chunk: after a
\* yield the generator first looks at update.status, then asks
\* generate_sse_events for the next update and yields it, or, at the end of
\* the stream, inserts the row if final_data is set
ClientPull(enter_outcome, exit_outcome) ==
    /\ save_pc \in { "start", "yielded" }
    /\ LET update == delivered[Len(delivered)]
           raises == save_pc = "yielded" /\ attr_status(update).raises
           data_after ==
               IF /\ save_pc = "yielded"
                  /\ attr_status(update).value = "complete"
                  /\ update.data
               THEN << update.data >>
               ELSE final_data
           next == generate_sse_events(sse_pc, sse_index, workflow, enter_outcome, exit_outcome)
       IN  IF raises
           THEN /\ save_pc' = "raised"
                /\ sse_pc' = "closed"
                /\ UNCHANGED << sse_index, sse_chunks, delivered, final_data, scraped_articles >>
           ELSE /\ sse_pc' = next.pc
                /\ sse_index' = next.index
                /\ sse_chunks' = sse_chunks \o next.chunk
                /\ final_data' = data_after
                /\ IF next.chunk # << >>
                   THEN /\ delivered' = delivered \o next.chunk
                        /\ save_pc' = "yielded"
                        /\ UNCHANGED scraped_articles
                   ELSE /\ save_pc' = "finished"
                        /\ scraped_articles' =
                             IF data_after # << >> /\ current_user # "None"
                             THEN Append(scraped_articles, [ user_id |-> current_user ])
                             ELSE scraped_articles
                        /\ UNCHANGED delivered
    /\ UNCHANGED << current_user, workflow, http_log, limiter_vars, core_vars,
                    consent_vars, route_vars >>

NextEndpoint ==
    \/ \E user_id \in Users, wf \in Workflows : ScrapeStream(user_id, wf)
    \/ \E enter_outcome, exit_outcome \in ScraperOutcomes : ClientPull(enter_outcome, exit_outcome)

SpecEndpoint == InitEndpoint /\ [][NextEndpoint]_vars

\* the stream of the request ends in this step, by the end of the generator
\* or by an exception in it
StreamEnds == save_pc \in { "start", "yielded" } /\ save_pc' \in { "finished", "raised" }

\* the scraper of the request started, and the workflow it runs for the URL
\* ends with status complete
WorkflowCompletes ==
    /\ delivered # << >>
    /\ delivered[1] = EventLine("progress")
    /\ workflow[Len(workflow)].status = "complete"

\* C39: when the stream of a request ends, one row for the requesting user
\* has been inserted if the workflow of the request ends with status
\* complete, and no row otherwise.
C39_OneRowPerCompletedScrape ==
    [][ StreamEnds =>
          scraped_articles' = IF WorkflowCompletes
                              THEN Append(scraped_articles, [ user_id |-> current_user ])
                              ELSE scraped_articles ]_vars

====
